---- MODULE Spec2Model ----
(***************************************************************************)
(* Model of weather-api-go: the two-tier cache-aside lookup of             *)
(* WeatherService.GetWeather (services), WeatherRepository (repository),   *)
(* NWSAPIClient.GetForecast (services) and WeatherHandler.GetWeather       *)
(* (handlers).                                                             *)
(*                                                                         *)
(* Units.  Time is counted in ticks of half an hour (Hour == 2 ticks).     *)
(* Temperatures are integers in tenths of a degree (300 is 30.0).          *)
(* Coordinates are integers in units of 1e-7 degree, so that two distinct  *)
(* coordinates can format to the same 6-decimal cache key.                 *)
(***************************************************************************)
EXTENDS Integers, Sequences, FiniteSets, TLC

\* ------------------------------------------------------------------ bounds
NumProcs == 2      \* concurrent request goroutines
MaxTime == 2       \* the clock runs from 0 to MaxTime ticks
MaxRows == 2       \* rows the durable store may hold (caps its growth)
TempSpan == 60     \* classifier inputs reach this far beyond its boundaries
AgeSpan == 4       \* cached entries may date from this long before the start

\* ------------------------------------------------------- program constants
Hour == 2          \* time.Hour, in ticks
Hot == 300         \* 30.0 degrees Celsius, in tenths
Cold == 100        \* 10.0 degrees Celsius, in tenths
StatusInternalServerError == 500
StatusOK == 200
StatusBadRequest == 400
StatusNotFound == 404
MaxLat == 900000000     \* 90 degrees, in units of 1e-7 degree
MaxLon == 1800000000    \* 180 degrees
NaN == 2000000000       \* stands for the float64 NaN (no coordinate is that large)

Procs == 1..NumProcs

Nil == [nil |-> TRUE]

\* Coordinates of the requests: Home and Near differ in the 7th decimal only.
Home == [lat |-> 407128001, lon |-> -740060000]
Near == [lat |-> 407128004, lon |-> -740060000]
Coords == {Home, Near}

\* The coordinates GetWeather can be called with: those of the requests, and
\* those with a NaN that the handler lets through.
ServedCoords ==
    Coords \cup { [lat |-> NaN, lon |-> Home.lon], [lat |-> Home.lat, lon |-> NaN],
                  [lat |-> NaN, lon |-> NaN] }

\* fmt.Sprintf("%.6f", x): x rounded to 6 decimals (to the nearest 10 units);
\* the value of Fmt6(NaN) stands for the text "NaN".
Fmt6(x) == IF x >= 0 THEN (x + 5) \div 10 ELSE -((5 - x) \div 10)

\* Mutant of RedisKey: the key holds the coordinate as it was given.
RedisKeyExact(lat, lon) == <<"weather", lat, lon>>

\* fmt.Sprintf("weather:%.6f:%.6f", lat, lon)
RedisKey(lat, lon) == <<"weather", Fmt6(lat), Fmt6(lon)>>

RedisKeys == { RedisKey(c.lat, c.lon) : c \in ServedCoords }

\* Periods the upstream forecast endpoint may list (temperature in tenths).
Periods ==
    { [shortForecast |-> "Sunny", temperature |-> 860, temperatureUnit |-> "F"],
      [shortForecast |-> "Cloudy", temperature |-> 680, temperatureUnit |-> "F"],
      [shortForecast |-> "Snow",  temperature |-> 50,  temperatureUnit |-> "C"] }

\* What the two upstream endpoints may answer to one GetForecast call: the
\* outcome of the points GET, the outcome of the forecast GET ("unsent" when
\* the call ends before it) and the period list the forecast body carries.
PointsErrors == {"transport", "status", "decode", "nourl"}
ForecastErrors == {"transport", "status", "decode"}
PeriodLists == {<<>>} \cup { <<a>> : a \in Periods }
                      \cup { <<a, b>> : a \in Periods, b \in Periods }
UpstreamAnswers ==
    { [pts |-> e, fc |-> "unsent", periods |-> <<>>] : e \in PointsErrors }
    \cup { [pts |-> "ok", fc |-> e, periods |-> <<>>] : e \in ForecastErrors }
    \cup { [pts |-> "ok", fc |-> "ok", periods |-> ps] : ps \in PeriodLists }

VARIABLES
    now,        \* the wall clock, in ticks
    rdb,        \* TRUE iff the repository holds a Redis client (r.rdb != nil)
    redis,      \* the fast cache: key -> Nil or [data, exp]
    db,         \* the weather_cache table: sequence of rows, in insertion order
    lk,         \* per goroutine: the request it serves and where it stands
    probe       \* input and output of a pure function applied on its own;
                \* in the startup specification, where main stands

vars == <<now, rdb, redis, db, lk, probe>>

\* ------------------------------------------------------------ pure functions

\* Mutant of GetTemperatureCharacterization: the boundaries are exclusive.
GetTemperatureCharacterizationExclusive(tempC) ==
    IF tempC > Hot THEN "hot"
    ELSE IF tempC < Cold THEN "cold"
    ELSE "moderate"

\* WeatherService.GetTemperatureCharacterization
GetTemperatureCharacterization(tempC) ==
    IF tempC >= Hot THEN "hot"
    ELSE IF tempC <= Cold THEN "cold"
    ELSE "moderate"

\* Mutants of IsCacheFresh: the comparison turned round, no check at all, and
\* an entry of exactly one hour taken as fresh.
IsCacheFreshInverted(cache, t) == t - cache.timestamp > Hour
IsCacheFreshAlways(cache, t) == TRUE
IsCacheFreshInclusive(cache, t) == t - cache.timestamp <= Hour

\* WeatherRepository.IsCacheFresh: time.Since(cache.Timestamp) < time.Hour
IsCacheFresh(cache, t) == t - cache.timestamp < Hour

\* Mutant of WeatherResponse: the label is computed from the Fahrenheit field.
WeatherResponseLabelFromF(w) ==
    [forecast |-> w.forecast,
     temperature |-> GetTemperatureCharacterization(w.tempF),
     temperature_c |-> w.tempC,
     temperature_f |-> w.tempF]

\* models.WeatherResponse built from one WeatherCache (the three return sites).
WeatherResponse(w) ==
    [forecast |-> w.forecast,
     temperature |-> GetTemperatureCharacterization(w.tempC),
     temperature_c |-> w.tempC,
     temperature_f |-> w.tempF]

\* Mutant of GetForecast: the last period of the list is parsed.
GetForecastLastPeriod(lat, lon, pts, fc, periods, t) ==
    IF pts = "transport" THEN
        [err |-> "failed to fetch points data", weather |-> Nil, fetches |-> 1]
    ELSE IF pts = "status" THEN
        [err |-> "NWS points API returned status", weather |-> Nil, fetches |-> 1]
    ELSE IF pts = "decode" THEN
        [err |-> "failed to decode points response", weather |-> Nil, fetches |-> 1]
    ELSE IF pts = "nourl" THEN
        [err |-> "no forecast URL found in points response", weather |-> Nil, fetches |-> 1]
    ELSE IF fc = "transport" THEN
        [err |-> "failed to fetch forecast data", weather |-> Nil, fetches |-> 2]
    ELSE IF fc = "status" THEN
        [err |-> "NWS forecast API returned status", weather |-> Nil, fetches |-> 2]
    ELSE IF fc = "decode" THEN
        [err |-> "failed to decode forecast response", weather |-> Nil, fetches |-> 2]
    ELSE IF Len(periods) = 0 THEN
        [err |-> "no forecast periods found", weather |-> Nil, fetches |-> 2]
    ELSE LET today == periods[Len(periods)]
             tempC == IF today.temperatureUnit = "F"
                      THEN ((today.temperature - 320) * 5) \div 9
                      ELSE today.temperature
         IN [err |-> "",
             weather |-> [latitude |-> lat, longitude |-> lon,
                          forecast |-> today.shortForecast,
                          tempC |-> tempC,
                          tempF |-> today.temperature,
                          timestamp |-> t],
             fetches |-> 2]

\* NWSAPIClient.GetForecast: the two chained sub-fetches and the parse of the
\* first period.  pts/fc are the outcomes of the two GETs, periods the list
\* the second one carries, t the time the call returns.
GetForecast(lat, lon, pts, fc, periods, t) ==
    IF pts = "transport" THEN
        [err |-> "failed to fetch points data", weather |-> Nil, fetches |-> 1]
    ELSE IF pts = "status" THEN
        [err |-> "NWS points API returned status", weather |-> Nil, fetches |-> 1]
    ELSE IF pts = "decode" THEN
        [err |-> "failed to decode points response", weather |-> Nil, fetches |-> 1]
    ELSE IF pts = "nourl" THEN
        [err |-> "no forecast URL found in points response", weather |-> Nil, fetches |-> 1]
    ELSE IF fc = "transport" THEN
        [err |-> "failed to fetch forecast data", weather |-> Nil, fetches |-> 2]
    ELSE IF fc = "status" THEN
        [err |-> "NWS forecast API returned status", weather |-> Nil, fetches |-> 2]
    ELSE IF fc = "decode" THEN
        [err |-> "failed to decode forecast response", weather |-> Nil, fetches |-> 2]
    ELSE IF Len(periods) = 0 THEN
        [err |-> "no forecast periods found", weather |-> Nil, fetches |-> 2]
    ELSE LET today == periods[1]
             tempC == IF today.temperatureUnit = "F"
                      THEN ((today.temperature - 320) * 5) \div 9
                      ELSE today.temperature
         IN [err |-> "",
             weather |-> [latitude |-> lat, longitude |-> lon,
                          forecast |-> today.shortForecast,
                          tempC |-> tempC,
                          tempF |-> today.temperature,
                          timestamp |-> t],
             fetches |-> 2]

\* --------------------------------------------------------------- the stores

\* json.Marshal(weather): the serialized copy the fast cache stores.
JsonMarshal(w) ==
    <<w.latitude, w.longitude, w.forecast, w.tempC, w.tempF, w.timestamp>>

\* json.Marshal returns an error for a struct that holds a NaN.
JsonMarshalOk(w) == w.latitude # NaN /\ w.longitude # NaN

\* The INSERT binds a NaN as NULL, which the NOT NULL columns refuse.
InsertAccepts(w) == w.latitude # NaN /\ w.longitude # NaN

\* Bytes in the fast cache that are no serialized WeatherCache.
Garbage == <<"garbage">>

\* json.Unmarshal([]byte(data), &cache): ok is FALSE when data does not decode.
JsonUnmarshal(data) ==
    IF Len(data) = 6
    THEN [ok |-> TRUE,
          cache |-> [latitude |-> data[1], longitude |-> data[2],
                     forecast |-> data[3], tempC |-> data[4],
                     tempF |-> data[5], timestamp |-> data[6]]]
    ELSE [ok |-> FALSE, cache |-> Nil]

\* rdb.Get(ctx, key): the entry when present and not yet expired.
RedisGet(key, t) ==
    IF redis[key] # Nil /\ t < redis[key].exp THEN redis[key] ELSE Nil

\* The (time.Duration) expiry SaveToCache passes to rdb.Set.
RedisTTL == 1 * Hour

\* Rows matching WHERE latitude = ? AND longitude = ? (exact comparison).
RowsFor(lat, lon) ==
    { i \in 1..Len(db) : db[i].latitude = lat /\ db[i].longitude = lon }

\* ORDER BY timestamp DESC LIMIT 1: a row of the greatest timestamp; rows of
\* equal timestamp are not ordered by the query, any of them may be returned.
LatestRows(lat, lon) ==
    { i \in RowsFor(lat, lon) :
        \A j \in RowsFor(lat, lon) : db[j].timestamp <= db[i].timestamp }

\* ----------------------------------------------------------------- requests

IdleLookup ==
    [pc |-> "idle", lat |-> 0, lon |-> 0, cached |-> Nil, weather |-> Nil,
     err |-> "", result |-> Nil, http |-> Nil,
     fastR |-> "none", durR |-> "none", up |-> "none",
     fastW |-> "none", durW |-> "none", readAt |-> 0, query |-> Nil]

InitStores ==
    /\ now = 0
    /\ rdb \in BOOLEAN
    /\ redis = [k \in RedisKeys |-> Nil]
    /\ db = <<>>
    /\ lk = [p \in Procs |-> IdleLookup]

Init ==
    /\ InitStores
    /\ probe = Nil


\* Room left in the durable table for the rows of the lookups that are about
\* to write back (keeps the table within MaxRows).
RoomForRow ==
    Len(db) + Cardinality({ p \in Procs : lk[p].pc \in {"saveFast", "saveDb"} })
        < MaxRows

\* Mutant of HandlerReply: the error reply leaves the details out.
HandlerReplyNoDetails(resp, err) ==
    IF err # ""
    THEN [status |-> StatusInternalServerError,
          body |-> [error |-> "Failed to get weather data", details |-> ""]]
    ELSE [status |-> StatusOK, body |-> resp]

\* WeatherHandler.GetWeather, on an error of the service and on a result.
HandlerReply(resp, err) ==
    IF err # ""
    THEN [status |-> StatusInternalServerError,
          body |-> [error |-> "Failed to get weather data", details |-> err]]
    ELSE [status |-> StatusOK, body |-> resp]

\* GetWeather returns (resp, nil) or (nil, err) and the handler answers.
Return(l, resp, err) ==
    [l EXCEPT !.pc = "done", !.result = resp, !.err = err,
              !.http = HandlerReply(resp, err)]

\* Mutant of AfterCacheRead: an entry that is not fresh is dropped.
AfterCacheReadDropStale(l, t) ==
    IF l.cached # Nil /\ IsCacheFresh(l.cached, t)
    THEN Return(l, WeatherResponse(l.cached), "")
    ELSE [l EXCEPT !.pc = "upstream", !.cached = Nil]

\* Mutant of AfterCacheRead: an entry is refreshed once it is half an hour
\* old.
AfterCacheReadHalfHour(l, t) ==
    IF l.cached # Nil /\ 2 * (t - l.cached.timestamp) < Hour
    THEN Return(l, WeatherResponse(l.cached), "")
    ELSE [l EXCEPT !.pc = "upstream"]

\* GetWeather, lines 36-43 and 46: the cached entry is returned when the read
\* gave no error and the entry is fresh; otherwise the upstream call is next.
AfterCacheRead(l, t) ==
    IF l.cached # Nil /\ IsCacheFresh(l.cached, t)
    THEN Return(l, WeatherResponse(l.cached), "")
    ELSE [l EXCEPT !.pc = "upstream"]

\* Mutant of AfterFastMiss: without a Redis client the durable cache is not
\* read either.
AfterFastMissNilSkipsDurable(l, why) ==
    [l EXCEPT !.pc = IF why = "nil" THEN "upstream" ELSE "durable", !.fastR = why]

\* GetFromCache, lines 36-42: the Redis read gave nothing usable (why), the
\* SQLite read is next.
AfterFastMiss(l, why) == [l EXCEPT !.pc = "durable", !.fastR = why]

\* Mutant of AfterDurableMiss: an error of the durable read fails the lookup.
AfterDurableMissFails(l, why) ==
    IF why = "err"
    THEN Return([l EXCEPT !.durR = why], Nil, "database is locked")
    ELSE [l EXCEPT !.pc = "upstream", !.durR = why]

\* GetFromCache, lines 51-53, and GetWeather, lines 36 and 46: the SQLite read
\* returned an error (a failure, or no row); the upstream call is next.
AfterDurableMiss(l, why) == [l EXCEPT !.pc = "upstream", !.durR = why]

\* Mutant of AfterUpstreamError: the error is returned whatever was cached.
AfterUpstreamErrorNoFallback(l, err) == Return(l, Nil, err)

\* Mutant of AfterUpstreamError: a failed upstream call is tried again.
AfterUpstreamErrorRetry(l, err) ==
    IF l.cached # Nil
    THEN Return(l, WeatherResponse(l.cached), "")
    ELSE [l EXCEPT !.pc = "upstream"]

\* Mutant of AfterUpstreamError: the stale entry that is served is written
\* back to the caches.
AfterUpstreamErrorResave(l, err) ==
    IF l.cached # Nil
    THEN [l EXCEPT !.pc = "saveFast", !.weather = l.cached]
    ELSE Return(l, Nil, err)

\* GetWeather, lines 47-58: the upstream call failed with err.
AfterUpstreamError(l, err) ==
    IF l.cached # Nil
    THEN Return(l, WeatherResponse(l.cached), "")
    ELSE Return(l, Nil, err)

\* Mutants of AfterSave: the reply is built from the entry read from the
\* cache; an error of the cache write fails the request.
AfterSaveCachedData(l, failed) ==
    Return(l, WeatherResponse(IF l.cached # Nil THEN l.cached ELSE l.weather), "")
AfterSavePropagates(l, failed) ==
    IF failed THEN Return(l, Nil, "cache write failed")
    ELSE Return(l, WeatherResponse(l.weather), "")

\* GetWeather, lines 61-68: the error of SaveToCache (failed) is dropped and
\* the fetched forecast is returned.
AfterSave(l, failed) == Return(l, WeatherResponse(l.weather), "")

\* Mutant of NewEntry: the expiry is counted from the capture of the forecast.
NewEntryFromCapture(w, t) ==
    [data |-> JsonMarshal(w), exp |-> w.timestamp + RedisTTL]

\* SaveToCache, lines 64-67: the value and expiry given to rdb.Set at time t.
NewEntry(w, t) == [data |-> JsonMarshal(w), exp |-> t + RedisTTL]

\* SaveToCache, lines 72-75: the row inserted at time t; the statement names
\* no timestamp, so the column default CURRENT_TIMESTAMP fills it.
NewRow(w, t) ==
    [latitude |-> w.latitude, longitude |-> w.longitude,
     forecast |-> w.forecast, tempC |-> w.tempC, tempF |-> w.tempF,
     timestamp |-> t]

\* ------------------------------------------------------------------ actions

\* A request with valid lat and lon reaches the handler, which calls
\* WeatherService.GetWeather(lat, lon).
Request(p, c) ==
    /\ lk[p].pc = "idle"
    /\ \A q \in Procs : q < p => lk[q].pc # "idle"
    /\ lk' = [lk EXCEPT ![p] =
                [IdleLookup EXCEPT !.pc = "fast", !.lat = c.lat, !.lon = c.lon]]
    /\ UNCHANGED <<now, rdb, redis, db, probe>>

\* GetFromCache, lines 32-42: the Redis read.  failed is the outcome of the
\* round trip to the server.
FastRead(p, failed) ==
    /\ lk[p].pc = "fast"
    /\ LET l == lk[p]
           e == RedisGet(RedisKey(l.lat, l.lon), now)
           d == IF e = Nil THEN [ok |-> FALSE, cache |-> Nil]
                ELSE JsonUnmarshal(e.data)
       IN IF ~rdb THEN
              /\ ~failed
              /\ lk' = [lk EXCEPT ![p] = AfterFastMiss(l, "nil")]
          ELSE IF failed THEN
              /\ lk' = [lk EXCEPT ![p] = AfterFastMiss(l, "err")]
          ELSE IF e = Nil THEN
              /\ lk' = [lk EXCEPT ![p] = AfterFastMiss(l, "miss")]
          ELSE IF ~d.ok THEN
              /\ lk' = [lk EXCEPT ![p] = AfterFastMiss(l, "corrupt")]
          ELSE
              /\ lk' = [lk EXCEPT ![p] =
                          AfterCacheRead([l EXCEPT !.cached = d.cache,
                                                   !.fastR = "hit",
                                                   !.readAt = now], now)]
    /\ UNCHANGED <<now, rdb, redis, db, probe>>

\* Mutant of DurableRead: a row that was found is copied into the fast cache.
DurableReadRepopulates(p, failed) ==
    /\ lk[p].pc = "durable"
    /\ LET l == lk[p]
       IN IF failed THEN
              /\ lk' = [lk EXCEPT ![p] = AfterDurableMiss(l, "err")]
          ELSE IF RowsFor(l.lat, l.lon) = {} THEN
              /\ lk' = [lk EXCEPT ![p] = AfterDurableMiss(l, "norow")]
          ELSE
              /\ \E i \in LatestRows(l.lat, l.lon) :
                    lk' = [lk EXCEPT ![p] =
                        AfterCacheRead(
                            [l EXCEPT !.cached =
                                        [latitude |-> l.lat, longitude |-> l.lon,
                                         forecast |-> db[i].forecast,
                                         tempC |-> db[i].tempC,
                                         tempF |-> db[i].tempF,
                                         timestamp |-> db[i].timestamp],
                                      !.durR = "row", !.readAt = now], now)]
    /\ redis' = IF rdb /\ ~failed /\ RowsFor(lk[p].lat, lk[p].lon) # {}
                THEN [redis EXCEPT ![RedisKey(lk[p].lat, lk[p].lon)] =
                        NewEntry(lk'[p].cached, now)]
                ELSE redis
    /\ UNCHANGED <<now, rdb, db, probe>>

\* GetFromCache, lines 44-58: the SQLite read.
DurableRead(p, failed) ==
    /\ lk[p].pc = "durable"
    /\ LET l == lk[p]
       IN IF failed THEN
              /\ lk' = [lk EXCEPT ![p] = AfterDurableMiss(l, "err")]
          ELSE IF RowsFor(l.lat, l.lon) = {} THEN
              /\ lk' = [lk EXCEPT ![p] = AfterDurableMiss(l, "norow")]
          ELSE
              /\ \E i \in LatestRows(l.lat, l.lon) :
                    lk' = [lk EXCEPT ![p] =
                        AfterCacheRead(
                            [l EXCEPT !.cached =
                                        [latitude |-> l.lat, longitude |-> l.lon,
                                         forecast |-> db[i].forecast,
                                         tempC |-> db[i].tempC,
                                         tempF |-> db[i].tempF,
                                         timestamp |-> db[i].timestamp],
                                      !.durR = "row", !.readAt = now], now)]
    /\ UNCHANGED <<now, rdb, redis, db, probe>>

\* Mutant of Upstream: identical lookups are de-duplicated (single flight), a
\* lookup waits while another one is fetching or writing back.
UpstreamSingleFlight(p, pts, fc, periods) ==
    /\ lk[p].pc = "upstream"
    /\ \A q \in Procs \ {p} : lk[q].pc \notin {"upstream", "saveFast", "saveDb"}
    /\ LET l == lk[p]
           r == GetForecast(l.lat, l.lon, pts, fc, periods, now)
       IN IF r.err # ""
          THEN lk' = [lk EXCEPT ![p] = AfterUpstreamError([l EXCEPT !.up = "fail"], r.err)]
          ELSE /\ RoomForRow
               /\ lk' = [lk EXCEPT ![p] =
                           [l EXCEPT !.pc = "saveFast", !.up = "ok",
                                     !.weather = r.weather]]
    /\ UNCHANGED <<now, rdb, redis, db, probe>>

\* GetWeather, lines 46-58: the upstream call and, when it failed, the stale
\* fallback.
Upstream(p, pts, fc, periods) ==
    /\ lk[p].pc = "upstream"
    /\ LET l == lk[p]
           r == GetForecast(l.lat, l.lon, pts, fc, periods, now)
       IN IF r.err # ""
          THEN lk' = [lk EXCEPT ![p] = AfterUpstreamError([l EXCEPT !.up = "fail"], r.err)]
          ELSE /\ RoomForRow
               /\ lk' = [lk EXCEPT ![p] =
                           [l EXCEPT !.pc = "saveFast", !.up = "ok",
                                     !.weather = r.weather]]
    /\ UNCHANGED <<now, rdb, redis, db, probe>>

\* Mutant of SaveFast: the write is a SETNX, it leaves an entry that is still
\* there in place.
SaveFastIfAbsent(p, failed) ==
    /\ lk[p].pc = "saveFast"
    /\ LET l == lk[p]
           w == l.weather
           k == RedisKey(w.latitude, w.longitude)
       IN IF ~rdb \/ ~JsonMarshalOk(w) THEN
              /\ ~failed
              /\ lk' = [lk EXCEPT ![p] = [l EXCEPT !.pc = "saveDb", !.fastW = "skip"]]
              /\ UNCHANGED redis
          ELSE IF failed THEN
              /\ lk' = [lk EXCEPT ![p] = [l EXCEPT !.pc = "saveDb", !.fastW = "fail"]]
              /\ UNCHANGED redis
          ELSE
              /\ redis' = IF redis[k] = Nil
                          THEN [redis EXCEPT ![k] = NewEntry(w, now)]
                          ELSE redis
              /\ lk' = [lk EXCEPT ![p] = [l EXCEPT !.pc = "saveDb", !.fastW = "ok"]]
    /\ UNCHANGED <<now, rdb, db, probe>>

\* SaveToCache, lines 62-69: the Redis write, skipped without a client and
\* when json.Marshal returns an error.
SaveFast(p, failed) ==
    /\ lk[p].pc = "saveFast"
    /\ LET l == lk[p]
           w == l.weather
       IN IF ~rdb \/ ~JsonMarshalOk(w) THEN
              /\ ~failed
              /\ lk' = [lk EXCEPT ![p] = [l EXCEPT !.pc = "saveDb", !.fastW = "skip"]]
              /\ UNCHANGED redis
          ELSE IF failed THEN
              /\ lk' = [lk EXCEPT ![p] = [l EXCEPT !.pc = "saveDb", !.fastW = "fail"]]
              /\ UNCHANGED redis
          ELSE
              /\ redis' = [redis EXCEPT ![RedisKey(w.latitude, w.longitude)] =
                             NewEntry(w, now)]
              /\ lk' = [lk EXCEPT ![p] = [l EXCEPT !.pc = "saveDb", !.fastW = "ok"]]
    /\ UNCHANGED <<now, rdb, db, probe>>

\* Mutant of SaveDb: the write is an upsert, it replaces the rows the
\* coordinate already has.
SaveDbUpsert(p, failed) ==
    /\ lk[p].pc = "saveDb"
    /\ LET l == lk[p]
           w == l.weather
           others == SelectSeq(db, LAMBDA r : r.latitude # w.latitude
                                              \/ r.longitude # w.longitude)
       IN /\ ~InsertAccepts(w) => failed
          /\ IF failed
             THEN /\ UNCHANGED db
             ELSE /\ db' = Append(others, NewRow(w, now))
          /\ lk' = [lk EXCEPT ![p] =
                      AfterSave([l EXCEPT !.durW = IF failed THEN "fail" ELSE "ok"],
                                failed)]
    /\ UNCHANGED <<now, rdb, redis, probe>>

\* SaveToCache, lines 71-76, and GetWeather, lines 63-68: the SQLite insert
\* (the row's timestamp is the column default CURRENT_TIMESTAMP; it fails when
\* the store fails or refuses the values), its error dropped by GetWeather,
\* and the return of the fetched forecast.
SaveDb(p, failed) ==
    /\ lk[p].pc = "saveDb"
    /\ LET l == lk[p]
           w == l.weather
       IN /\ ~InsertAccepts(w) => failed
          /\ IF failed
             THEN /\ UNCHANGED db
             ELSE /\ db' = Append(db, NewRow(w, now))
          /\ lk' = [lk EXCEPT ![p] =
                      AfterSave([l EXCEPT !.durW = IF failed THEN "fail" ELSE "ok"],
                                failed)]
    /\ UNCHANGED <<now, rdb, redis, probe>>

\* The handler has written its reply; the goroutine serves the next request.
Reply(p) ==
    /\ lk[p].pc = "done"
    /\ lk' = [lk EXCEPT ![p] = IdleLookup]
    /\ UNCHANGED <<now, rdb, redis, db, probe>>

\* Time passes; Redis drops the entries whose expiry has come.
Tick ==
    /\ now < MaxTime
    /\ now' = now + 1
    /\ redis' = [k \in RedisKeys |->
                   IF redis[k] # Nil /\ redis[k].exp <= now + 1 THEN Nil ELSE redis[k]]
    /\ UNCHANGED <<rdb, db, lk, probe>>

\* Something other than this service overwrites a fast-cache value with bytes
\* that do not decode (the case GetFromCache line 38 guards against).
CorruptFast(k) ==
    /\ rdb
    /\ redis[k] # Nil
    /\ redis[k].data # Garbage
    /\ redis' = [redis EXCEPT ![k].data = Garbage]
    /\ UNCHANGED <<now, rdb, db, lk, probe>>

\* No request is being served.
Quiescent == \A q \in Procs : lk[q].pc = "idle"

\* A request that arrives while no other is being served.
RequestInTurn(p, c) == Quiescent /\ Request(p, c)

\* Requests for one coordinate, served one at a time; every store may fail.
Next ==
    \/ \E p \in Procs : RequestInTurn(p, Home)
    \/ \E p \in Procs, failed \in BOOLEAN : FastRead(p, failed)
    \/ \E p \in Procs, failed \in BOOLEAN : DurableRead(p, failed)
    \/ \E p \in Procs, a \in UpstreamAnswers :
          Upstream(p, a.pts, a.fc, a.periods)
    \/ \E p \in Procs, failed \in BOOLEAN : SaveFast(p, failed)
    \/ \E p \in Procs, failed \in BOOLEAN : SaveDb(p, failed)
    \/ \E p \in Procs : Reply(p)
    \/ Tick
    \/ \E k \in RedisKeys : CorruptFast(k)

Spec == Init /\ [][Next]_vars

\* ------------------------------------------------------------------ claims

\* resp is the response built from the one entry w: its forecast and both
\* temperatures, and the label of its Celsius temperature.
Carries(resp, w) ==
    /\ resp # Nil
    /\ w # Nil
    /\ resp.forecast = w.forecast
    /\ resp.temperature_c = w.tempC
    /\ resp.temperature_f = w.tempF
    /\ resp.temperature = GetTemperatureCharacterization(w.tempC)

\* C1: GetWeather returns an error exactly when its upstream call failed and
\* its cache read found no entry in either layer; in every other case it
\* returns a forecast and no error.
C1_ErrorOnlyOnTotalMiss ==
    \A p \in Procs :
        lk[p].pc = "done" =>
            /\ lk[p].err # "" <=>
                  (lk[p].up = "fail" /\ lk[p].fastR # "hit" /\ lk[p].durR # "row")
            /\ lk[p].err = "" <=> lk[p].result # Nil

C1_Witness ==
    \E p \in Procs :
        /\ lk[p].pc = "done"
        /\ lk[p].err # ""
        /\ lk[p].fastR = "miss"
        /\ lk[p].durR = "norow"
        /\ lk[p].up = "fail"

\* C2: when the fast cache missed, the durable read returned a row that is 1
\* hour old or older and the upstream call failed, GetWeather returns that
\* row's forecast and temperatures, classified, and no error.
C2_StaleFallback ==
    \A p \in Procs :
        (lk[p].pc = "done" /\ lk[p].durR = "row" /\ lk[p].up = "fail") =>
            /\ lk[p].fastR # "hit"
            /\ lk[p].err = ""
            /\ lk[p].readAt - lk[p].cached.timestamp >= Hour
            /\ Carries(lk[p].result, lk[p].cached)
            /\ \E i \in LatestRows(lk[p].lat, lk[p].lon) :
                  /\ db[i].forecast = lk[p].result.forecast
                  /\ db[i].tempC = lk[p].result.temperature_c
                  /\ db[i].tempF = lk[p].result.temperature_f
                  /\ db[i].timestamp = lk[p].cached.timestamp

C2_Witness ==
    \E p \in Procs :
        /\ lk[p].pc = "done"
        /\ lk[p].fastR = "miss"
        /\ lk[p].durR = "row"
        /\ lk[p].up = "fail"
        /\ lk[p].result # Nil

\* C3: a lookup whose fast-cache read hits an entry less than 1 hour old
\* returns that entry without an upstream call and without a durable read.
C3_FreshFastHitNoUpstream ==
    \A p \in Procs :
        (lk[p].fastR = "hit" /\ lk[p].readAt - lk[p].cached.timestamp < Hour) =>
            /\ lk[p].pc = "done"
            /\ lk[p].up = "none"
            /\ lk[p].durR = "none"
            /\ lk[p].err = ""
            /\ Carries(lk[p].result, lk[p].cached)

C3_Witness ==
    \E p \in Procs :
        /\ lk[p].pc = "done"
        /\ lk[p].fastR = "hit"
        /\ lk[p].readAt - lk[p].cached.timestamp < Hour
        /\ lk[p].result # Nil

\* C4 as stated: every fast-cache hit that deserializes is returned at once,
\* whatever its timestamp, and no upstream call follows it.
C4_FastHitAlwaysReturned ==
    \A p \in Procs :
        lk[p].fastR = "hit" =>
            /\ lk[p].pc = "done"
            /\ lk[p].up = "none"
            /\ Carries(lk[p].result, lk[p].cached)

\* C4 amended: a fast-cache hit is never followed by a durable read; it is
\* returned at once exactly when its timestamp is less than 1 hour old at the
\* read; an older hit is followed by the upstream call and is returned only
\* as the fallback when that call fails.
C4_FastHitRechecked ==
    \A p \in Procs :
        lk[p].fastR = "hit" =>
            /\ lk[p].durR = "none"
            /\ IF lk[p].readAt - lk[p].cached.timestamp < Hour
               THEN /\ lk[p].pc = "done"
                    /\ lk[p].up = "none"
                    /\ Carries(lk[p].result, lk[p].cached)
               ELSE /\ lk[p].pc = "upstream" \/ lk[p].up # "none"
                    /\ lk[p].pc = "done" =>
                          \/ lk[p].up = "fail" /\ Carries(lk[p].result, lk[p].cached)
                          \/ lk[p].up = "ok" /\ Carries(lk[p].result, lk[p].weather)

C4_Witness ==
    \E p \in Procs :
        /\ lk[p].fastR = "hit"
        /\ lk[p].readAt - lk[p].cached.timestamp >= Hour
        /\ lk[p].pc = "done"
        /\ lk[p].up = "ok"

\* The lookup that read a fresh durable row: what it returns and what it did.
C5_FreshRowReturned ==
    \A p \in Procs :
        (lk[p].durR = "row" /\ lk[p].readAt - lk[p].cached.timestamp < Hour) =>
            /\ lk[p].pc = "done"
            /\ lk[p].fastR \in {"nil", "err", "miss", "corrupt"}
            /\ lk[p].up = "none"
            /\ lk[p].fastW = "none"
            /\ lk[p].durW = "none"
            /\ lk[p].err = ""
            /\ Carries(lk[p].result, lk[p].cached)
            /\ \E i \in LatestRows(lk[p].lat, lk[p].lon) :
                  /\ db[i].forecast = lk[p].result.forecast
                  /\ db[i].tempC = lk[p].result.temperature_c
                  /\ db[i].tempF = lk[p].result.temperature_f
                  /\ db[i].timestamp = lk[p].cached.timestamp

\* A step of a cache read changes neither store.
C5_ReadsWriteNothing ==
    \A p \in Procs :
        (lk[p].pc \in {"fast", "durable"} /\ lk'[p] # lk[p]) =>
            /\ redis' = redis
            /\ db' = db

\* C5: when the fast cache missed and the row the durable read returned is
\* fresh, the lookup returns that row, calls no upstream and writes neither
\* store; no cache read of a lookup changes the fast cache or the durable
\* store.
C5_FreshDurableHit == []C5_FreshRowReturned /\ [][C5_ReadsWriteNothing]_vars

C5_Witness ==
    \E p \in Procs :
        /\ rdb
        /\ lk[p].pc = "done"
        /\ lk[p].fastR = "miss"
        /\ lk[p].durR = "row"
        /\ lk[p].up = "none"
        /\ redis[RedisKey(lk[p].lat, lk[p].lon)] = Nil

\* The lookup whose upstream call succeeded: what it returns and attempted.
C6_FetchedReturned ==
    \A p \in Procs :
        (lk[p].pc = "done" /\ lk[p].up = "ok") =>
            /\ lk[p].err = ""
            /\ Carries(lk[p].result, lk[p].weather)
            /\ lk[p].fastW \in {"ok", "fail", "skip"}
            /\ lk[p].fastW = "skip" <=> ~rdb
            /\ lk[p].durW \in {"ok", "fail"}

\* What a successful fast-cache write and a successful insert store.
C6_WritesStoreFetched ==
    \A p \in Procs :
        /\ (lk[p].pc = "saveFast" /\ lk'[p].fastW = "ok") =>
              LET e == redis'[RedisKey(lk[p].lat, lk[p].lon)]
              IN /\ e # Nil
                 /\ JsonUnmarshal(e.data).ok
                 /\ JsonUnmarshal(e.data).cache = lk[p].weather
                 /\ e.exp > now
        /\ (lk[p].pc = "saveDb" /\ lk'[p].durW = "ok") =>
              /\ Len(db') = Len(db) + 1
              /\ SubSeq(db', 1, Len(db)) = db
              /\ db'[Len(db')].latitude = lk[p].lat
              /\ db'[Len(db')].longitude = lk[p].lon
              /\ db'[Len(db')].forecast = lk[p].weather.forecast
              /\ db'[Len(db')].tempC = lk[p].weather.tempC
              /\ db'[Len(db')].tempF = lk[p].weather.tempF

\* C6: when the upstream call of a lookup succeeds, the response carries the
\* fetched forecast and temperatures, not the cached ones; both writes are
\* attempted before the return, a fast-cache write that succeeds stores the
\* fetched forecast under the key, and an insert that succeeds adds one row
\* holding it.
C6_UpstreamSuccess == []C6_FetchedReturned /\ [][C6_WritesStoreFetched]_vars

C6_Witness ==
    \E p \in Procs :
        /\ lk[p].pc = "done"
        /\ lk[p].up = "ok"
        /\ lk[p].durR = "row"
        /\ lk[p].cached.forecast # lk[p].weather.forecast
        /\ lk[p].fastW = "ok"
        /\ lk[p].durW = "ok"
        /\ lk[p].result.forecast = lk[p].weather.forecast

\* The error texts GetForecast can return.
UpstreamErrors ==
    { GetForecast(Home.lat, Home.lon, a.pts, a.fc, a.periods, 0).err :
        a \in UpstreamAnswers } \ {""}

\* The lookup that found nothing cached and whose upstream call failed.
C7_TotalMissReply ==
    \A p \in Procs :
        (lk[p].pc = "done" /\ lk[p].cached = Nil /\ lk[p].up = "fail") =>
            /\ lk[p].result = Nil
            /\ lk[p].err \in UpstreamErrors
            /\ lk[p].http.status = 500
            /\ lk[p].http.body =
                  [error |-> "Failed to get weather data", details |-> lk[p].err]
            /\ lk[p].fastW = "none"
            /\ lk[p].durW = "none"

\* The step of a failing upstream call changes neither store.
C7_FailureWritesNothing ==
    \A p \in Procs :
        (lk[p].pc = "upstream" /\ lk'[p].pc = "done") =>
            /\ redis' = redis
            /\ db' = db

\* C7: on a total cache miss with a failing upstream call GetWeather fails
\* with the upstream's error, the handler answers 500 with error "Failed to
\* get weather data" and that error text as details, and the lookup has
\* written no cache entry.
C7_TotalMissFails == []C7_TotalMissReply /\ [][C7_FailureWritesNothing]_vars

C7_Witness ==
    \E p \in Procs :
        /\ lk[p].pc = "done"
        /\ lk[p].fastR = "miss"
        /\ lk[p].durR = "norow"
        /\ lk[p].up = "fail"
        /\ lk[p].http.status = 500
        /\ lk[p].http.body.details = "NWS points API returned status"

\* C8: after a successful upstream fetch, a failure of the fast-cache write,
\* of the insert, or of both does not fail the request: GetWeather returns
\* the fetched forecast and no error.
C8_WriteFailureIgnored ==
    \A p \in Procs :
        (lk[p].pc = "done" /\ (lk[p].fastW = "fail" \/ lk[p].durW = "fail")) =>
            /\ lk[p].up = "ok"
            /\ lk[p].err = ""
            /\ Carries(lk[p].result, lk[p].weather)
            /\ lk[p].http.status = 200
            /\ lk[p].http.body = lk[p].result

C8_Witness ==
    \E p \in Procs :
        /\ lk[p].pc = "done"
        /\ lk[p].fastW = "fail"
        /\ lk[p].durW = "fail"
        /\ lk[p].result # Nil

\* C9: a fast-cache read that errors or returns undeserializable data makes
\* the lookup go on with the durable read, a durable read that errors or
\* finds no row makes it go on with the upstream call, and an error result
\* comes from a failed upstream call only.
C9_ReadFailureIsMiss ==
    \A p \in Procs :
        /\ lk[p].fastR \in {"err", "corrupt"} =>
              lk[p].pc = "durable" \/ lk[p].durR # "none"
        /\ lk[p].durR \in {"err", "norow"} =>
              lk[p].pc = "upstream" \/ lk[p].up # "none"
        /\ lk[p].err # "" => lk[p].up = "fail"

C9_Witness ==
    \E p \in Procs :
        /\ lk[p].pc = "done"
        /\ lk[p].fastR = "corrupt"
        /\ lk[p].durR = "err"
        /\ lk[p].up = "ok"
        /\ lk[p].result # Nil

\* ---------------------------------------- the classifier applied on its own

\* Temperatures (tenths of a degree Celsius) given to the classifier: from
\* TempSpan below the cold boundary to TempSpan above the hot one.
TempRange == (Cold - TempSpan)..(Hot + TempSpan)

InitClassify ==
    /\ InitStores
    /\ probe \in { [tempC |-> t, label |-> ""] : t \in TempRange }

\* s.GetTemperatureCharacterization(tempC)
Classify ==
    /\ probe.label = ""
    /\ probe' = [probe EXCEPT !.label = GetTemperatureCharacterization(probe.tempC)]
    /\ UNCHANGED <<now, rdb, redis, db, lk>>

NextClassify == Classify

SpecClassify == InitClassify /\ [][NextClassify]_vars

\* C10: GetTemperatureCharacterization(tempC) is "hot" iff tempC >= 30,
\* "cold" iff tempC <= 10 and "moderate" for every other value: 30 is hot,
\* 10 is cold, and the result is one of the three labels.
C10_Classification ==
    (probe # Nil /\ probe.label # "") =>
        /\ probe.label \in {"hot", "cold", "moderate"}
        /\ probe.label = "hot" <=> probe.tempC >= 300
        /\ probe.label = "cold" <=> probe.tempC <= 100
        /\ probe.label = "moderate" <=> (probe.tempC > 100 /\ probe.tempC < 300)

C10_Witness ==
    /\ probe # Nil
    /\ probe.tempC = 300
    /\ probe.label = "hot"


\* ------------------------------------------------------ concurrent lookups

\* Lookups being served.
Active == { p \in Procs : lk[p].pc \notin {"idle", "done"} }

\* A request that arrives while others are being served (fiber runs every
\* request on its own goroutine; GetWeather takes no lock).  It is admitted
\* while the durable table has room for the row it may insert.
RequestConcurrent(p, c) ==
    /\ Len(db) + Cardinality(Active) < MaxRows
    /\ Request(p, c)

\* The upstream answers that make GetForecast succeed.
UpstreamSuccesses ==
    { a \in UpstreamAnswers : a.pts = "ok" /\ a.fc = "ok" /\ Len(a.periods) > 0 }

\* The next step of the lookup of goroutine p, with an upstream that answers.
StepConcurrent(p) ==
    \/ FastRead(p, FALSE)
    \/ DurableRead(p, FALSE)
    \/ \E a \in UpstreamSuccesses : Upstream(p, a.pts, a.fc, a.periods)
    \/ \E failed \in BOOLEAN : SaveFast(p, failed)
    \/ \E failed \in BOOLEAN : SaveDb(p, failed)

\* Overlapping requests for one coordinate, close enough in time that the
\* clock does not tick.  The cache reads answer, the cache writes may fail
\* (SQLite answers "database is locked" to a writer that meets another), the
\* upstream answers every call.
NextConcurrent ==
    \/ \E p \in Procs : RequestConcurrent(p, Home)
    \/ \E p \in Procs : FastRead(p, FALSE)
    \/ \E p \in Procs : DurableRead(p, FALSE)
    \/ \E p \in Procs, a \in UpstreamSuccesses :
          Upstream(p, a.pts, a.fc, a.periods)
    \/ \E p \in Procs, failed \in BOOLEAN : SaveFast(p, failed)
    \/ \E p \in Procs, failed \in BOOLEAN : SaveDb(p, failed)
    \/ \E p \in Procs : Reply(p)

SpecConcurrent == Init /\ [][NextConcurrent]_vars

\* C11: with an upstream that answers, every lookup that is being served can
\* take its next step whatever the other lookups are doing (none waits for
\* another), and every lookup that has returned has returned a forecast and
\* no error, under every interleaving of the reads, upstream calls and
\* write-backs of lookups for the same coordinate.
C11_ConcurrentLookupsSucceed ==
    \A p \in Procs :
        /\ p \in Active => ENABLED StepConcurrent(p)
        /\ lk[p].pc = "done" =>
              /\ lk[p].err = ""
              /\ lk[p].result # Nil
              /\ lk[p].http.status = StatusOK
              /\ lk[p].up = "ok" => Carries(lk[p].result, lk[p].weather)

\* Every goroutine has served a cold miss of its own: each one missed both
\* layers, called the upstream and wrote back, all of them overlapping.
C11_Witness ==
    /\ \A p \in Procs :
          /\ lk[p].pc = "done"
          /\ lk[p].durR = "norow"
          /\ lk[p].up = "ok"
          /\ lk[p].durW = "ok"
          /\ lk[p].result # Nil
    /\ Len(db) = NumProcs


\* ------------------------------------------------------- the durable store

\* The row of a coordinate that was inserted last.
LastInsert(lat, lon) ==
    CHOOSE i \in RowsFor(lat, lon) : \A j \in RowsFor(lat, lon) : j <= i

\* C12 as stated: a durable read that returns a row returns the forecast and
\* temperatures of the row inserted last for the coordinate (the lookup has
\* not yet inserted a row of its own).
C12_ReadReturnsLastInsert ==
    \A p \in Procs :
        (lk[p].durR = "row" /\ lk[p].durW = "none") =>
            LET r == db[LastInsert(lk[p].lat, lk[p].lon)]
            IN /\ lk[p].cached.forecast = r.forecast
               /\ lk[p].cached.tempC = r.tempC
               /\ lk[p].cached.tempF = r.tempF


\* A step keeps every row there is, in place and unchanged, and the insert of
\* a write-back that succeeds adds one row after them, for its coordinate.
C13_RowsKept ==
    /\ Len(db') >= Len(db)
    /\ SubSeq(db', 1, Len(db)) = db
    /\ \A p \in Procs :
          (lk[p].pc = "saveDb" /\ lk'[p].durW = "ok") =>
              /\ Len(db') = Len(db) + 1
              /\ db'[Len(db')].latitude = lk[p].lat
              /\ db'[Len(db')].longitude = lk[p].lon

\* C13: the durable cache is append-only: no step of the service changes or
\* removes a row, every write-back whose insert succeeds adds one new row,
\* also when the coordinate has rows already, and so the table only grows.
C13_AppendOnly == [][C13_RowsKept]_vars

\* A write-back has added a second row for a coordinate that had one.
C13_Witness ==
    /\ Len(db) >= 2
    /\ db[1].latitude = db[2].latitude
    /\ db[1].longitude = db[2].longitude
    /\ \E p \in Procs : lk[p].pc = "done" /\ lk[p].durR = "row" /\ lk[p].durW = "ok"


\* ------------------------------------------------- two nearby coordinates

\* Requests for Home and for Near, which format to the same 6 decimals, served
\* one at a time; the stores answer, the upstream may fail.
NextNear ==
    \/ \E p \in Procs, c \in Coords : RequestInTurn(p, c)
    \/ \E p \in Procs : FastRead(p, FALSE)
    \/ \E p \in Procs : DurableRead(p, FALSE)
    \/ \E p \in Procs, a \in UpstreamAnswers :
          Upstream(p, a.pts, a.fc, a.periods)
    \/ \E p \in Procs : SaveFast(p, FALSE)
    \/ \E p \in Procs : SaveDb(p, FALSE)
    \/ \E p \in Procs : Reply(p)
    \/ Tick

SpecNear == Init /\ [][NextNear]_vars

\* (lat1, lon1) and (lat2, lon2) format to the same 6 decimals.
SameFmt6(lat1, lon1, lat2, lon2) ==
    Fmt6(lat1) = Fmt6(lat2) /\ Fmt6(lon1) = Fmt6(lon2)

\* The fast-cache entries that are alive and decode.
LiveEntries ==
    { k \in DOMAIN redis : redis[k] # Nil /\ JsonUnmarshal(redis[k].data).ok }

\* The fast cache is keyed by the formatted coordinate: a lookup that missed
\* it (and has not written it since) leaves no live entry written for a
\* coordinate of the same 6 decimals, and a hit is such an entry.
C14_FastKeyedByFmt6 ==
    \A p \in Procs :
        /\ (lk[p].fastR = "miss" /\ lk[p].fastW = "none") =>
              \A k \in LiveEntries :
                  LET e == JsonUnmarshal(redis[k].data).cache
                  IN ~SameFmt6(e.latitude, e.longitude, lk[p].lat, lk[p].lon)
        /\ lk[p].fastR = "hit" =>
              SameFmt6(lk[p].cached.latitude, lk[p].cached.longitude,
                       lk[p].lat, lk[p].lon)

\* C14 as stated: both layers are keyed by the formatted coordinate, so a
\* durable read that finds no row (the lookup has not inserted since) leaves
\* no row written for a coordinate of the same 6 decimals.
C14_BothLayersKeyedByFmt6 ==
    /\ C14_FastKeyedByFmt6
    /\ \A p \in Procs :
          (lk[p].durR = "norow" /\ lk[p].durW = "none") =>
              \A i \in 1..Len(db) :
                  ~SameFmt6(db[i].latitude, db[i].longitude, lk[p].lat, lk[p].lon)

\* C14 amended: the fast cache is keyed by the coordinate formatted to 6
\* decimals, the durable cache by the exact latitude and longitude: a durable
\* read finds the rows written for exactly the coordinate of the lookup, and
\* no row when there are rows for other coordinates only, whatever they
\* format to.
C14_FastByFmt6DurableExact ==
    /\ C14_FastKeyedByFmt6
    /\ \A p \in Procs :
          /\ (lk[p].durR = "norow" /\ lk[p].durW = "none") =>
                \A i \in 1..Len(db) :
                    db[i].latitude # lk[p].lat \/ db[i].longitude # lk[p].lon
          /\ lk[p].durR = "row" =>
                \E i \in 1..Len(db) :
                    /\ db[i].latitude = lk[p].lat
                    /\ db[i].longitude = lk[p].lon
                    /\ db[i].forecast = lk[p].cached.forecast
                    /\ db[i].timestamp = lk[p].cached.timestamp

\* A lookup for Near hit the fast-cache entry written for Home, while the
\* durable table holds a row for Home.
C14_Witness ==
    \E p \in Procs :
        /\ lk[p].lat = Near.lat
        /\ lk[p].fastR = "hit"
        /\ lk[p].cached.latitude = Home.lat
        /\ \E i \in 1..Len(db) : db[i].latitude = Home.lat


\* --------------------------------------- the freshness check applied on its own

\* Entries a cache may hold: forecasts captured up to AgeSpan ticks before
\* the service started, or since.
CachedEntries ==
    { GetForecast(Home.lat, Home.lon, "ok", "ok", <<a>>, ts).weather :
        a \in Periods, ts \in (0 - AgeSpan)..MaxTime }

InitFresh ==
    /\ InitStores
    /\ probe \in { [cache |-> e, at |-> 0, fresh |-> FALSE, checks |-> 0,
                     prior |-> FALSE] : e \in CachedEntries }

\* s.repo.IsCacheFresh(cachedWeather), called at a read of the entry: the
\* verdict of this read, and that of the read before it.
CheckFresh ==
    /\ probe.cache.timestamp <= now
    /\ probe.checks = 0 \/ probe.at < now
    /\ probe' = [probe EXCEPT !.at = now,
                              !.fresh = IsCacheFresh(probe.cache, now),
                              !.prior = probe.fresh,
                              !.checks = IF probe.checks = 0 THEN 1 ELSE 2]
    /\ UNCHANGED <<now, rdb, redis, db, lk>>

NextFresh == CheckFresh \/ Tick

SpecFresh == InitFresh /\ [][NextFresh]_vars

\* C15: the verdict of IsCacheFresh at a read is TRUE exactly when the time of
\* that read less the timestamp stored in the entry is below 1 hour (2 ticks),
\* FALSE at exactly 1 hour, and it is that of the present read whatever the
\* read before it found; the entry itself holds no verdict.
C15_FreshIffUnderOneHour ==
    (probe # Nil /\ probe.checks > 0) =>
        /\ probe.fresh <=> (probe.at - probe.cache.timestamp < 2)
        /\ probe.at - probe.cache.timestamp = 2 => ~probe.fresh
        /\ probe.at - probe.cache.timestamp = 1 => probe.fresh
        /\ DOMAIN probe.cache =
              {"latitude", "longitude", "forecast", "tempC", "tempF", "timestamp"}

\* An entry that a first read found fresh is exactly 1 hour old at the second
\* read, which finds it stale.
C15_Witness ==
    /\ probe # Nil
    /\ probe.checks = 2
    /\ probe.prior
    /\ probe.at - probe.cache.timestamp = 2
    /\ ~probe.fresh


\* ----------------------------------------------- one attempt for each layer

\* C16: a lookup comes to a layer only when it has not attempted that layer
\* before (so each of the fast read, the durable read, the upstream call, the
\* fast write and the insert is attempted at most once, in this order), and
\* a lookup whose upstream call failed has ended with that step: it wrote
\* nothing and returned the cached entry it had read, or the error.
C16_OneAttemptPerLayer ==
    \A p \in Procs :
        LET l == lk[p]
        IN /\ l.pc = "fast" =>
                 /\ l.fastR = "none" /\ l.durR = "none" /\ l.up = "none"
                 /\ l.fastW = "none" /\ l.durW = "none"
           /\ l.pc = "durable" =>
                 /\ l.durR = "none" /\ l.up = "none"
                 /\ l.fastW = "none" /\ l.durW = "none"
           /\ l.pc = "upstream" =>
                 l.up = "none" /\ l.fastW = "none" /\ l.durW = "none"
           /\ l.pc = "saveFast" =>
                 l.up = "ok" /\ l.fastW = "none" /\ l.durW = "none"
           /\ l.pc = "saveDb" => l.up = "ok" /\ l.durW = "none"
           /\ l.up = "fail" =>
                 /\ l.pc = "done"
                 /\ l.fastW = "none" /\ l.durW = "none"
                 /\ IF l.cached # Nil
                    THEN l.err = "" /\ Carries(l.result, l.cached)
                    ELSE l.err # "" /\ l.result = Nil

\* The fast read failed, a stale row was read and the upstream call failed:
\* the lookup ended there with the row, after one attempt on each of the
\* three layers it came to.
C16_Witness ==
    \E p \in Procs :
        /\ lk[p].pc = "done"
        /\ lk[p].fastR = "err"
        /\ lk[p].durR = "row"
        /\ lk[p].up = "fail"
        /\ lk[p].err = ""
        /\ lk[p].fastW = "none"


\* ------------------------------------------- an upstream that does not answer

\* GetForecast, lines 33 and 53: c.httpClient.Get is sent and no answer comes;
\* which is the GET that hangs, that of the points or that of the forecast.
UpstreamHangs(p, which) ==
    /\ lk[p].pc = "upstream"
    /\ which \in {"hungPoints", "hungForecast"}
    /\ lk' = [lk EXCEPT ![p].pc = which]
    /\ UNCHANGED <<now, rdb, redis, db, probe>>

\* Mutant of ClientTimeout: the http.Client has no Timeout, the call waits on.
ClientTimeoutNone(p) ==
    /\ FALSE
    /\ UNCHANGED vars

\* NewNWSAPIClient, line 23, and GetForecast, lines 34-36 and 54-56: the
\* Timeout of the http.Client ends the GET with an error, GetForecast returns
\* it wrapped, and GetWeather (lines 47-58) takes the stale fallback.
ClientTimeout(p) ==
    /\ lk[p].pc \in {"hungPoints", "hungForecast"}
    /\ LET l == lk[p]
           r == IF l.pc = "hungPoints"
                THEN GetForecast(l.lat, l.lon, "transport", "unsent", <<>>, now)
                ELSE GetForecast(l.lat, l.lon, "ok", "transport", <<>>, now)
       IN lk' = [lk EXCEPT ![p] =
                   AfterUpstreamError([l EXCEPT !.up = "timeout"], r.err)]
    /\ UNCHANGED <<now, rdb, redis, db, probe>>

\* The next step of the lookup of goroutine p: the stores answer, the upstream
\* answers with any outcome or not at all.
StepLive(p) ==
    \/ FastRead(p, FALSE)
    \/ DurableRead(p, FALSE)
    \/ \E a \in UpstreamAnswers : Upstream(p, a.pts, a.fc, a.periods)
    \/ \E which \in {"hungPoints", "hungForecast"} : UpstreamHangs(p, which)
    \/ ClientTimeout(p)
    \/ SaveFast(p, FALSE)
    \/ SaveDb(p, FALSE)

NextLive ==
    \/ \E p \in Procs : RequestInTurn(p, Home)
    \/ \E p \in Procs : FastRead(p, FALSE)
    \/ \E p \in Procs : DurableRead(p, FALSE)
    \/ \E p \in Procs, a \in UpstreamAnswers :
          Upstream(p, a.pts, a.fc, a.periods)
    \/ \E p \in Procs, which \in {"hungPoints", "hungForecast"} :
          UpstreamHangs(p, which)
    \/ \E p \in Procs : ClientTimeout(p)
    \/ \E p \in Procs : SaveFast(p, FALSE)
    \/ \E p \in Procs : SaveDb(p, FALSE)
    \/ \E p \in Procs : Reply(p)
    \/ Tick

\* The goroutine of a lookup keeps running: the scheduler runs it, the stores
\* answer its calls and the timer of the http.Client fires.
SpecLive ==
    Init /\ [][NextLive]_vars /\ \A p \in Procs : WF_vars(StepLive(p))

\* A lookup whose upstream call was ended by the timeout has failed upstream:
\* it has returned the cached entry it had read, or the error of the GET.
C17_TimeoutIsFailure ==
    \A p \in Procs :
        lk[p].up = "timeout" =>
            /\ lk[p].pc = "done"
            /\ lk[p].fastW = "none" /\ lk[p].durW = "none"
            /\ IF lk[p].cached # Nil
               THEN lk[p].err = "" /\ Carries(lk[p].result, lk[p].cached)
               ELSE /\ lk[p].result = Nil
                    /\ lk[p].err \in {"failed to fetch points data",
                                       "failed to fetch forecast data"}

\* C17: every lookup that has started eventually returns, with a result or
\* with an error; an upstream call that gets no answer is ended by the
\* timeout of the client and taken as an upstream failure, so that the lookup
\* returns the cached entry it had read or, without one, the error.
C17_LookupTerminates ==
    /\ []C17_TimeoutIsFailure
    /\ \A p \in Procs :
          (lk[p].pc \notin {"idle", "done"}) ~>
              (lk[p].pc = "done" /\ (lk[p].result # Nil \/ lk[p].err # ""))

\* The forecast GET got no answer, the timeout ended it, and the lookup
\* returned the stale row it had read.
C17_Witness ==
    \E p \in Procs :
        /\ lk[p].pc = "done"
        /\ lk[p].up = "timeout"
        /\ lk[p].durR = "row"
        /\ lk[p].result # Nil


\* ------------------------------------------------------------------ startup

\* The process before main runs: whether weather_cache.db can be opened and
\* its table created, and whether the Redis server answers the ping.
InitBoot ==
    /\ now = 0
    /\ rdb = FALSE
    /\ redis = [k \in RedisKeys |-> Nil]
    /\ db = <<>>
    /\ lk = [p \in Procs |-> IdleLookup]
    /\ probe \in { [phase |-> "initDB", sqliteOk |-> s, redisOk |-> r] :
                      s \in BOOLEAN, r \in BOOLEAN }

\* main, lines 64-67: repository.InitDB; its error ends the process
\* (log.Fatalf).
InitDB ==
    /\ probe.phase = "initDB"
    /\ probe' = [probe EXCEPT !.phase = IF probe.sqliteOk THEN "initRedis"
                                                         ELSE "exited"]
    /\ UNCHANGED <<now, rdb, redis, db, lk>>

\* Mutant of InitRedis: a Redis that does not answer ends the process.
InitRedisFatal ==
    /\ probe.phase = "initRedis"
    /\ rdb' = probe.redisOk
    /\ probe' = [probe EXCEPT !.phase = IF probe.redisOk THEN "listening"
                                                        ELSE "exited"]
    /\ UNCHANGED <<now, redis, db, lk>>

\* main, lines 71-84 and 100, and initRedis: the client is kept when the ping
\* answers, nil otherwise; the repository is built with it and the server
\* listens.
InitRedis ==
    /\ probe.phase = "initRedis"
    /\ rdb' = probe.redisOk
    /\ probe' = [probe EXCEPT !.phase = "listening"]
    /\ UNCHANGED <<now, redis, db, lk>>

\* A request reaches the handler of the listening server.
RequestServed(p, c) ==
    /\ probe.phase = "listening"
    /\ RequestInTurn(p, c)

\* main from its first line on, then the requests it serves; every store may
\* fail after the start as well.
NextStartup ==
    \/ InitDB
    \/ InitRedis
    \/ \E p \in Procs : RequestServed(p, Home)
    \/ \E p \in Procs, failed \in BOOLEAN : FastRead(p, failed)
    \/ \E p \in Procs, failed \in BOOLEAN : DurableRead(p, failed)
    \/ \E p \in Procs, a \in UpstreamAnswers :
          Upstream(p, a.pts, a.fc, a.periods)
    \/ \E p \in Procs, failed \in BOOLEAN : SaveFast(p, failed)
    \/ \E p \in Procs, failed \in BOOLEAN : SaveDb(p, failed)
    \/ \E p \in Procs : Reply(p)
    \/ Tick

SpecStartup == InitBoot /\ [][NextStartup]_vars

\* C18 as stated: the start succeeds whatever stores are available, main
\* never ends the process.
C18_StartupAlwaysSucceeds == probe.phase # "exited"

\* C18 amended: the start succeeds whether or not Redis answers, and without
\* it the repository has no fast cache (its reads miss, its writes are
\* skipped) and lookups are served by the durable cache and the upstream;
\* the process ends at the start, serving nothing, exactly when the durable
\* store cannot be initialised.
C18_StartupNeedsDurableOnly ==
    /\ probe.phase = "exited" <=> (probe.phase # "initDB" /\ ~probe.sqliteOk)
    /\ probe.phase = "listening" => (rdb <=> probe.redisOk)
    /\ probe.phase # "listening" => \A p \in Procs : lk[p] = IdleLookup
    /\ \A p \in Procs :
          ~rdb =>
              /\ lk[p].fastR \in {"none", "nil"}
              /\ lk[p].fastW \in {"none", "skip"}
              /\ (lk[p].pc = "done" /\ lk[p].durR = "row"
                     /\ lk[p].readAt - lk[p].cached.timestamp < Hour) =>
                    Carries(lk[p].result, lk[p].cached)
              /\ (lk[p].pc = "done" /\ lk[p].up = "ok") =>
                    Carries(lk[p].result, lk[p].weather)

\* Redis did not answer at the start; the server listens and has served a
\* lookup from a fresh durable row.
C18_Witness ==
    /\ probe.phase = "listening"
    /\ ~probe.redisOk
    /\ \E p \in Procs :
          /\ lk[p].pc = "done"
          /\ lk[p].fastR = "nil"
          /\ lk[p].durR = "row"
          /\ lk[p].up = "none"
          /\ lk[p].result # Nil


\* -------------------------------------------- GetForecast applied on its own

InitForecast ==
    /\ InitStores
    /\ probe \in { [lat |-> c.lat, lon |-> c.lon, answer |-> a, out |-> Nil] :
                      c \in Coords, a \in UpstreamAnswers }

\* c.GetForecast(lat, lon) against endpoints that answer as probe.answer says.
CallGetForecast ==
    /\ probe.out = Nil
    /\ probe' = [probe EXCEPT !.out =
                    GetForecast(probe.lat, probe.lon, probe.answer.pts,
                                probe.answer.fc, probe.answer.periods, now)]
    /\ UNCHANGED <<now, rdb, redis, db, lk>>

NextForecast == CallGetForecast \/ Tick

SpecForecast == InitForecast /\ [][NextForecast]_vars

\* C19: GetForecast fails, returning no forecast, exactly when the points GET
\* or the forecast GET has a transport error, a status other than 200 or a
\* body that does not decode, when the points body names no forecast URL, or
\* when the period list is empty; the forecast GET is sent only when the
\* points GET gave a URL; on success the forecast text and the temperature
\* are those of the first period of the list.
C19_TwoChainedFetches ==
    (probe # Nil /\ probe.out # Nil) =>
        LET a == probe.answer
            r == probe.out
        IN /\ r.err # "" <=>
                 \/ a.pts \in {"transport", "status", "decode", "nourl"}
                 \/ a.fc \in {"transport", "status", "decode"}
                 \/ a.periods = <<>>
           /\ r.err # "" <=> r.weather = Nil
           /\ r.fetches = IF a.pts = "ok" THEN 2 ELSE 1
           /\ r.err = "" =>
                 /\ r.weather.forecast = a.periods[1].shortForecast
                 /\ a.periods[1].temperatureUnit = "F" =>
                       r.weather.tempF = a.periods[1].temperature
                 /\ a.periods[1].temperatureUnit = "C" =>
                       r.weather.tempC = a.periods[1].temperature
                 /\ r.weather.latitude = probe.lat
                 /\ r.weather.longitude = probe.lon

\* Both GETs answered, the list has two different periods, and the forecast
\* returned is the first one.
C19_Witness ==
    /\ probe # Nil
    /\ probe.out # Nil
    /\ probe.out.err = ""
    /\ Len(probe.answer.periods) = 2
    /\ probe.answer.periods[1] # probe.answer.periods[2]
    /\ probe.out.weather.forecast = probe.answer.periods[1].shortForecast


\* ------------------------------------------------- the handler's validation

\* Values of the lat and lon query parameters; "" is a missing parameter.
LatQueries == {"", "abc", "NaN", "40.7128001", "90.0000001", "-90.0000001"}
LonQueries == {"", "abc", "NaN", "-74.0060000", "180.0000001", "-180.0000001"}

\* strconv.ParseFloat(s, 64): the float the text denotes, or an error.  It
\* accepts "NaN" (and "Inf") and returns the special value without an error.
ParseFloat(str) ==
    CASE str = "40.7128001" -> [err |-> FALSE, val |-> 407128001]
      [] str = "90.0000001" -> [err |-> FALSE, val |-> 900000001]
      [] str = "-90.0000001" -> [err |-> FALSE, val |-> -900000001]
      [] str = "-74.0060000" -> [err |-> FALSE, val |-> -740060000]
      [] str = "180.0000001" -> [err |-> FALSE, val |-> 1800000001]
      [] str = "-180.0000001" -> [err |-> FALSE, val |-> -1800000001]
      [] str = "NaN" -> [err |-> FALSE, val |-> NaN]
      [] OTHER -> [err |-> TRUE, val |-> 0]

\* x < y on float64: FALSE whenever one of the two is NaN.
FloatLess(x, y) == x # NaN /\ y # NaN /\ x < y

\* c.Status(fiber.StatusBadRequest).JSON(models.ErrorResponse{...})
BadRequest(error, details) ==
    [status |-> StatusBadRequest, body |-> [error |-> error, details |-> details],
     lat |-> 0, lon |-> 0]

\* WeatherHandler.GetWeather, lines 35-72: the reply that rejects the query,
\* or (status 0) the coordinate GetWeather is called with.
ValidateQuery(latStr, lonStr) ==
    IF latStr = "" THEN
        BadRequest("Missing latitude parameter",
                   "Latitude is required (e.g., lat=40.7128)")
    ELSE IF ParseFloat(latStr).err THEN
        BadRequest("Invalid latitude parameter",
                   "Latitude must be a valid float number")
    ELSE IF lonStr = "" THEN
        BadRequest("Missing longitude parameter",
                   "Longitude is required (e.g., lon=-74.0060)")
    ELSE IF ParseFloat(lonStr).err THEN
        BadRequest("Invalid longitude parameter",
                   "Longitude must be a valid float number")
    ELSE LET lat == ParseFloat(latStr).val
             lon == ParseFloat(lonStr).val
         IN IF \/ FloatLess(lat, -MaxLat) \/ FloatLess(MaxLat, lat)
               \/ FloatLess(lon, -MaxLon) \/ FloatLess(MaxLon, lon)
            THEN BadRequest("Invalid coordinates",
                   "Latitude must be between -90 and 90, Longitude between -180 and 180")
            ELSE [status |-> 0, body |-> Nil, lat |-> lat, lon |-> lon]

\* WeatherHandler.GetWeather, lines 34-74: a request arrives while no other is
\* served; the handler rejects its query or calls GetWeather with the parsed
\* coordinate.
HandleRequest(p, latStr, lonStr) ==
    /\ Quiescent
    /\ \A q \in Procs : q < p => lk[q].pc # "idle"
    /\ LET v == ValidateQuery(latStr, lonStr)
           q == [lat |-> latStr, lon |-> lonStr]
       IN lk' = [lk EXCEPT ![p] =
                   IF v.status # 0
                   THEN [IdleLookup EXCEPT !.pc = "done", !.query = q,
                             !.http = [status |-> v.status, body |-> v.body]]
                   ELSE [IdleLookup EXCEPT !.pc = "fast", !.query = q,
                             !.lat = v.lat, !.lon = v.lon]]
    /\ UNCHANGED <<now, rdb, redis, db, probe>>

\* Requests with any query, served one at a time; the stores answer (but
\* refuse a NaN), the upstream may fail.
NextHandler ==
    \/ \E p \in Procs, latStr \in LatQueries, lonStr \in LonQueries :
          HandleRequest(p, latStr, lonStr)
    \/ \E p \in Procs : FastRead(p, FALSE)
    \/ \E p \in Procs : DurableRead(p, FALSE)
    \/ \E p \in Procs, a \in UpstreamAnswers :
          Upstream(p, a.pts, a.fc, a.periods)
    \/ \E p \in Procs : SaveFast(p, FALSE)
    \/ \E p \in Procs, failed \in BOOLEAN : SaveDb(p, failed)
    \/ \E p \in Procs : Reply(p)
    \/ Tick

SpecHandler == Init /\ [][NextHandler]_vars

\* The texts that denote a number, and the number (in 1e-7 degree).
Numerals ==
    [ t \in {"40.7128001", "90.0000001", "-90.0000001", "-74.0060000",
             "180.0000001", "-180.0000001"} |->
        CASE t = "40.7128001" -> 407128001
          [] t = "90.0000001" -> 900000001
          [] t = "-90.0000001" -> -900000001
          [] t = "-74.0060000" -> -740060000
          [] t = "180.0000001" -> 1800000001
          [] t = "-180.0000001" -> -1800000001 ]

\* The error the claim gives a query, "" for a query it accepts.
ExpectedError(q) ==
    IF q.lat = "" THEN "Missing latitude parameter"
    ELSE IF q.lat \notin DOMAIN Numerals THEN "Invalid latitude parameter"
    ELSE IF q.lon = "" THEN "Missing longitude parameter"
    ELSE IF q.lon \notin DOMAIN Numerals THEN "Invalid longitude parameter"
    ELSE IF \/ Numerals[q.lat] < -900000000 \/ Numerals[q.lat] > 900000000
            \/ Numerals[q.lon] < -1800000000 \/ Numerals[q.lon] > 1800000000
         THEN "Invalid coordinates"
    ELSE ""

\* C20 as stated: every request whose lat or lon is missing, is not a number
\* or is out of range has been answered 400 with the error its first failing
\* check names, and has read no cache and called no upstream.
C20_BadQueryRejected ==
    \A p \in Procs :
        (lk[p].query # Nil /\ ExpectedError(lk[p].query) # "") =>
            /\ lk[p].pc = "done"
            /\ lk[p].http.status = 400
            /\ lk[p].http.body.error = ExpectedError(lk[p].query)
            /\ lk[p].fastR = "none"
            /\ lk[p].durR = "none"
            /\ lk[p].up = "none"


\* ------------------------------------------------ the two temperature units

\* C21 as stated: the forecast GetForecast returns carries one temperature in
\* both units, tempF = tempC * 9/5 + 32 (in tenths: 5 * (tempF - 320) =
\* 9 * tempC), whichever unit the upstream period reports.
C21_SameTemperatureBothUnits ==
    (probe # Nil /\ probe.out # Nil /\ probe.out.err = "") =>
        5 * (probe.out.weather.tempF - 320) = 9 * probe.out.weather.tempC


\* ------------------------------------------------------------------- routes

\* Paths of GET requests, as their segments: /weather, /health, /api/weather,
\* /api/health, / (no segment), /index.html, /map and /apiary.
Paths ==
    { <<"weather">>, <<"health">>, <<"api", "weather">>, <<"api", "health">>,
      <<>>, <<"index.html">>, <<"map">>, <<"apiary">> }

\* The files of ./dist/frontend that app.Static serves; / is index.html.
StaticFiles == { <<>>, <<"index.html">> }

\* main, line 91: len(c.Path()) >= 4 && c.Path()[:4] == "/api".
HasApiPrefix(path) == Len(path) > 0 /\ path[1] \in {"api", "apiary"}

\* main, lines 83-95: the routes in the order they are registered; a static
\* file that is not found and the SPA fallback under /api pass the request
\* on, and a request that no route answers gets fiber's 404.
RouteOf(path) ==
    IF path = <<"weather">> THEN "weather"
    ELSE IF path = <<"health">> THEN "health"
    ELSE IF path \in StaticFiles THEN "static"
    ELSE IF HasApiPrefix(path) THEN "notfound"
    ELSE "spa"

\* A GET request arrives while no other is served and the app dispatches it:
\* GetWeather validates the query and calls the service, GetHealth and the
\* other routes answer at once.
Dispatch(p, path, latStr, lonStr) ==
    /\ Quiescent
    /\ \A q \in Procs : q < p => lk[q].pc # "idle"
    /\ LET route == RouteOf(path)
           v == ValidateQuery(latStr, lonStr)
           q == [path |-> path, lat |-> latStr, lon |-> lonStr, route |-> route]
           answer(status, body) ==
               [IdleLookup EXCEPT !.pc = "done", !.query = q,
                                  !.http = [status |-> status, body |-> body]]
       IN lk' = [lk EXCEPT ![p] =
                   IF route = "weather" THEN
                       IF v.status # 0 THEN answer(v.status, v.body)
                       ELSE [IdleLookup EXCEPT !.pc = "fast", !.query = q,
                                               !.lat = v.lat, !.lon = v.lon]
                   ELSE IF route = "health" THEN
                       answer(StatusOK, [status |-> "healthy", timestamp |-> now])
                   ELSE IF route = "notfound" THEN
                       answer(StatusNotFound, "Cannot GET")
                   ELSE answer(StatusOK, "index.html")]
    /\ UNCHANGED <<now, rdb, redis, db, probe>>

\* GET requests for any path, served one at a time; the stores answer, the
\* upstream may fail.
NextRoutes ==
    \/ \E p \in Procs, path \in Paths, latStr \in {"", "40.7128001"} :
          Dispatch(p, path, latStr, "-74.0060000")
    \/ \E p \in Procs : FastRead(p, FALSE)
    \/ \E p \in Procs : DurableRead(p, FALSE)
    \/ \E p \in Procs, a \in UpstreamAnswers :
          Upstream(p, a.pts, a.fc, a.periods)
    \/ \E p \in Procs : SaveFast(p, FALSE)
    \/ \E p \in Procs : SaveDb(p, FALSE)
    \/ \E p \in Procs : Reply(p)
    \/ Tick

SpecRoutes == Init /\ [][NextRoutes]_vars

\* C22 as stated: a GET of /api/weather with valid lat and lon is served by
\* the weather handler (a lookup, answered 200 with the forecast or 500) and
\* a GET of /api/health is answered 200 with the health JSON; neither gets
\* the static files, the SPA fallback or a 404.
C22_ApiPathsServed ==
    \A p \in Procs :
        LET q == lk[p].query
        IN /\ (q # Nil /\ q.path = <<"api", "weather">> /\ q.lat # "") =>
                 /\ q.route = "weather"
                 /\ lk[p].pc = "done" => lk[p].http.status \in {200, 500}
           /\ (q # Nil /\ q.path = <<"api", "health">>) =>
                 /\ q.route = "health"
                 /\ lk[p].http.status = 200
                 /\ lk[p].http.body.status = "healthy"


\* ------------------------------------------- the repository called on its own

InitRepo ==
    /\ InitStores
    /\ probe = [written |-> Nil, read |-> Nil, served |-> "none"]

\* r.SaveToCache(weather) with a forecast that GetForecast has just returned,
\* both writes successful: the Redis Set (when there is a client) and the
\* INSERT.
SaveToCache(a) ==
    /\ Len(db) < MaxRows
    /\ LET w == GetForecast(Home.lat, Home.lon, a.pts, a.fc, a.periods, now).weather
       IN /\ redis' = IF rdb
                      THEN [redis EXCEPT ![RedisKey(w.latitude, w.longitude)] =
                              NewEntry(w, now)]
                      ELSE redis
          /\ db' = Append(db, NewRow(w, now))
          /\ probe' = [written |-> w, read |-> Nil, served |-> "none"]
    /\ UNCHANGED <<now, rdb, lk>>

\* r.GetFromCache(lat, lon): the Redis entry when it is there and decodes,
\* otherwise the row the query returns.  failed is the outcome of the Redis
\* round trip.
GetFromCache(failed) ==
    /\ failed => rdb
    /\ LET e == RedisGet(RedisKey(Home.lat, Home.lon), now)
           d == IF e = Nil THEN [ok |-> FALSE, cache |-> Nil]
                ELSE JsonUnmarshal(e.data)
       IN IF rdb /\ ~failed /\ d.ok THEN
              probe' = [probe EXCEPT !.read = d.cache, !.served = "fast"]
          ELSE IF RowsFor(Home.lat, Home.lon) = {} THEN
              probe' = [probe EXCEPT !.read = Nil, !.served = "none"]
          ELSE
              \E i \in LatestRows(Home.lat, Home.lon) :
                  probe' = [probe EXCEPT
                              !.read = [latitude |-> Home.lat,
                                        longitude |-> Home.lon,
                                        forecast |-> db[i].forecast,
                                        tempC |-> db[i].tempC,
                                        tempF |-> db[i].tempF,
                                        timestamp |-> db[i].timestamp],
                              !.served = "durable"]
    /\ UNCHANGED <<now, rdb, redis, db, lk>>

NextRepo ==
    \/ \E a \in UpstreamSuccesses : SaveToCache(a)
    \/ \E failed \in BOOLEAN : GetFromCache(failed)
    \/ Tick

SpecRepo == InitRepo /\ [][NextRepo]_vars

\* C23 as stated: a GetFromCache that follows a SaveToCache for the same
\* coordinate and is served by the fast cache or by the durable cache returns
\* the forecast text, TempC and TempF that were written.
C23_RoundTrip ==
    (probe # Nil /\ probe.written # Nil /\ probe.served \in {"fast", "durable"}) =>
        /\ probe.read.forecast = probe.written.forecast
        /\ probe.read.tempC = probe.written.tempC
        /\ probe.read.tempF = probe.written.tempF


\* ------------------------------------------------- where entries come from

\* The forecasts a successful upstream call can return for a coordinate.
UpstreamForecasts(lat, lon) ==
    { [forecast |-> g.weather.forecast, tempC |-> g.weather.tempC,
       tempF |-> g.weather.tempF] :
        g \in { GetForecast(lat, lon, a.pts, a.fc, a.periods, 0) :
                  a \in UpstreamSuccesses } }

\* Every decodable fast entry and every row holds a forecast the upstream
\* returned; a lookup that ended without a successful fetch wrote nothing.
C24_StoresHoldFetched ==
    /\ \A k \in RedisKeys :
          (redis[k] # Nil /\ redis[k].data # Garbage) =>
              LET c == JsonUnmarshal(redis[k].data).cache
              IN /\ k = RedisKey(c.latitude, c.longitude)
                 /\ [forecast |-> c.forecast, tempC |-> c.tempC, tempF |-> c.tempF]
                       \in UpstreamForecasts(c.latitude, c.longitude)
                 /\ c.timestamp <= now
    /\ \A i \in 1..Len(db) :
          /\ [forecast |-> db[i].forecast, tempC |-> db[i].tempC,
              tempF |-> db[i].tempF]
                \in UpstreamForecasts(db[i].latitude, db[i].longitude)
          /\ db[i].timestamp <= now
    /\ \A p \in Procs :
          (lk[p].pc = "done" /\ lk[p].up # "ok") =>
              lk[p].fastW = "none" /\ lk[p].durW = "none"

\* A step that adds a row or puts a serialized entry under a key is the
\* write-back of a lookup whose upstream call succeeded, and stores what that
\* call returned; every other step of a lookup leaves both stores alone.
C24_OnlyFetchCreates ==
    /\ \A k \in RedisKeys :
          (redis'[k] # redis[k] /\ redis'[k] # Nil /\ redis'[k].data # Garbage) =>
              \E p \in Procs :
                  /\ lk[p].pc = "saveFast"
                  /\ lk[p].up = "ok"
                  /\ redis'[k] = NewEntry(lk[p].weather, now)
    /\ db' # db =>
          \E p \in Procs :
              /\ lk[p].pc = "saveDb"
              /\ lk[p].up = "ok"
              /\ db' = Append(db, NewRow(lk[p].weather, now))
    /\ \A p \in Procs :
          (lk'[p] # lk[p] /\ lk[p].pc \notin {"saveFast", "saveDb"}) =>
              redis' = redis /\ db' = db

\* C24: cache entries are created only by the write-back of a successful
\* upstream fetch; a lookup that returns a fresh cached entry, a stale
\* fallback or an error leaves both stores as they were, and every fast entry
\* and durable row holds a forecast that an upstream call returned.
C24_OnlyFetchedForecastsCached ==
    []C24_StoresHoldFetched /\ [][C24_OnlyFetchCreates]_vars

\* A stale fallback has been served from a row and the stores still hold
\* exactly the one forecast written earlier.
C24_Witness ==
    \E p \in Procs :
        /\ lk[p].pc = "done"
        /\ lk[p].up = "fail"
        /\ lk[p].cached # Nil
        /\ lk[p].err = ""
        /\ Len(db) = 1
        /\ db[1].forecast = lk[p].result.forecast


\* ------------------------------------------------ what a response is made of

\* The entry a successful lookup answers from: the fetched forecast when the
\* upstream call succeeded, otherwise the entry read from the cache.
SourceEntry(l) == IF l.up = "ok" THEN l.weather ELSE l.cached

\* C25: on every successful return the response is derived from one single
\* entry (the fetched forecast after a successful upstream call, otherwise
\* the cached entry): forecast, temperature_c and temperature_f are that
\* entry's fields and the label is GetTemperatureCharacterization of
\* temperature_c; what the stores hold are entries, never a response.
C25_ResponseFromOneEntry ==
    /\ \A p \in Procs :
          (lk[p].pc = "done" /\ lk[p].err = "") =>
              LET src == SourceEntry(lk[p])
                  resp == lk[p].result
              IN /\ src # Nil
                 /\ resp # Nil
                 /\ resp.forecast = src.forecast
                 /\ resp.temperature_c = src.tempC
                 /\ resp.temperature_f = src.tempF
                 /\ resp.temperature =
                       GetTemperatureCharacterization(resp.temperature_c)
                 /\ lk[p].http.status = StatusOK
                 /\ lk[p].http.body = resp
    /\ \A i \in 1..Len(db) : "temperature" \notin DOMAIN db[i]
    /\ \A k \in RedisKeys :
          (redis[k] # Nil /\ redis[k].data # Garbage) =>
              "temperature" \notin DOMAIN JsonUnmarshal(redis[k].data).cache

\* A stale fast hit was refreshed: cached and fetched entries differ in every
\* field and the response is the fetched one throughout.
C25_Witness ==
    \E p \in Procs :
        /\ lk[p].pc = "done"
        /\ lk[p].fastR = "hit"
        /\ lk[p].up = "ok"
        /\ lk[p].cached.forecast # lk[p].weather.forecast
        /\ lk[p].cached.tempC # lk[p].weather.tempC
        /\ lk[p].cached.tempF # lk[p].weather.tempF
        /\ lk[p].result.temperature_c = lk[p].weather.tempC
        /\ lk[p].result.temperature_f = lk[p].weather.tempF


\* ------------------------------------------------ the two copies' timestamps

\* C26 as stated: for a forecast written back to both caches, the durable row
\* carries the timestamp of the fast-cache copy, the capture time of the
\* upstream fetch, so that IsCacheFresh gives the same verdict on the row and
\* on the copy at every read time.
C26_SameTimestampBothLayers ==
    \A p \in Procs :
        (lk[p].pc = "done" /\ lk[p].up = "ok"
            /\ lk[p].fastW = "ok" /\ lk[p].durW = "ok") =>
            LET w == lk[p].weather
                row == db[Len(db)]
                e == redis[RedisKey(w.latitude, w.longitude)]
            IN /\ row.forecast = w.forecast
               /\ row.timestamp = w.timestamp
               /\ (e # Nil /\ e.data # Garbage) =>
                     JsonUnmarshal(e.data).cache.timestamp = row.timestamp
               /\ \A t \in w.timestamp..(MaxTime + Hour) :
                     IsCacheFresh(row, t) = IsCacheFresh(w, t)


\* ------------------------------------------------- expiry of the fast cache

\* An entry the fast cache holds is within the hour that followed its write,
\* and is not returned by a read at or after its expiry.
C27_UnreadableAfterExpiry ==
    \A k \in RedisKeys :
        redis[k] # Nil =>
            /\ now < redis[k].exp
            /\ redis[k].exp <= now + Hour
            /\ \A t \in redis[k].exp..(MaxTime + Hour) : RedisGet(k, t) = Nil

\* A step after which a key has an expiry it did not have is the fast-cache
\* write of a lookup whose upstream call succeeded, and the expiry is one
\* hour after that write; the steps of the cache reads change no entry.
C27_ExpirySetByWriteBack ==
    /\ \A k \in RedisKeys :
          (redis'[k] # Nil /\ (redis[k] = Nil \/ redis'[k].exp # redis[k].exp)) =>
              /\ redis'[k].exp = now + Hour
              /\ \E p \in Procs :
                    /\ lk[p].pc = "saveFast"
                    /\ lk[p].up = "ok"
                    /\ lk'[p].fastW = "ok"
                    /\ k = RedisKey(lk[p].lat, lk[p].lon)
    /\ \A p \in Procs :
          (lk[p].pc \in {"fast", "durable"} /\ lk'[p] # lk[p]) => redis' = redis

\* C27: every fast-cache entry is written with an expiry of one hour counted
\* from the write and cannot be read once that hour has passed; only the
\* write-back after a successful upstream fetch sets or renews an expiry, and
\* reads never extend it.
C27_ExpiryOneHourFromWrite ==
    []C27_UnreadableAfterExpiry /\ [][C27_ExpirySetByWriteBack]_vars

\* A lookup was served from a fast entry written earlier and the entry still
\* expires one hour after its write, less than an hour from now.
C27_Witness ==
    \E p \in Procs :
        /\ lk[p].pc = "done"
        /\ lk[p].fastR = "hit"
        /\ lk[p].up = "none"
        /\ redis[RedisKey(lk[p].lat, lk[p].lon)] # Nil
        /\ redis[RedisKey(lk[p].lat, lk[p].lon)].exp < now + Hour


\* ------------------------------------- no Redis client and a Redis that misses

\* Two deployments of the service receive the same requests, upstream answers
\* and insert outcomes.  One has no Redis client (initRedis returned nil); the
\* other has a client whose reads never return an entry and whose writes are
\* dropped.  The variables hold the deployment that is serving, probe holds
\* the other one.
InitTwo ==
    /\ InitStores
    /\ rdb = FALSE
    /\ probe = [rdb |-> TRUE, redis |-> redis, db |-> db, lk |-> lk]

Started(l) == { p \in Procs : l[p].pc # "idle" }
AllDone(l) == \A p \in Procs : l[p].pc \in {"idle", "done"}

\* Both deployments have served the same number of requests, to the end.
InStep ==
    /\ AllDone(lk)
    /\ AllDone(probe.lk)
    /\ Cardinality(Started(lk)) = Cardinality(Started(probe.lk))

\* The next request: first to the deployment without a client, then the same
\* request to the other one.
RequestBoth(p) ==
    /\ AllDone(lk)
    /\ IF rdb THEN Cardinality(Started(lk)) < Cardinality(Started(probe.lk))
              ELSE InStep
    /\ Request(p, Home)

\* The deployment that has served its request hands over to the other one.
OtherDeployment ==
    /\ AllDone(lk)
    /\ AllDone(probe.lk)
    /\ IF rdb THEN InStep /\ Started(lk) # Procs
              ELSE Cardinality(Started(lk)) > Cardinality(Started(probe.lk))
    /\ rdb' = probe.rdb
    /\ redis' = probe.redis
    /\ db' = probe.db
    /\ lk' = probe.lk
    /\ probe' = [rdb |-> rdb, redis |-> redis, db |-> db, lk |-> lk]
    /\ UNCHANGED now

\* The upstream answer a is the one the other deployment's lookup received.
SameAnswer(a, l, lat, lon) ==
    LET r == GetForecast(lat, lon, a.pts, a.fc, a.periods, now)
    IN \/ l.up = "none"
       \/ l.up = "ok" /\ r.err = "" /\ r.weather = l.weather
       \/ l.up = "fail" /\ r.err # "" /\ (l.err # "" => r.err = l.err)

\* The upstream answers the two deployments are given: the points GET
\* answers, the forecast GET fails or carries at most one period.
TwoAnswers == { a \in UpstreamAnswers : a.pts = "ok" /\ Len(a.periods) <= 1 }

\* The clock advances between requests.
NextTwo ==
    \/ \E p \in Procs : RequestBoth(p)
    \/ \E p \in Procs : FastRead(p, FALSE)
    \/ \E p \in Procs : DurableRead(p, FALSE)
    \/ \E p \in Procs, a \in TwoAnswers :
          /\ rdb => SameAnswer(a, probe.lk[p], lk[p].lat, lk[p].lon)
          /\ Upstream(p, a.pts, a.fc, a.periods)
    \/ \E p \in Procs : SaveFast(p, rdb)
    \/ \E p \in Procs, failed \in BOOLEAN :
          /\ rdb => (failed <=> probe.lk[p].durW = "fail")
          /\ SaveDb(p, failed)
    \/ OtherDeployment
    \/ InStep /\ Tick

SpecTwo == InitTwo /\ [][NextTwo]_vars

\* The deployment without a Redis client, whichever side it is on.
Absent == IF rdb THEN probe ELSE [rdb |-> rdb, redis |-> redis, db |-> db, lk |-> lk]

\* C28: after the same sequence of lookups the deployment without a Redis
\* client has given the same responses and holds the same durable rows as the
\* deployment whose Redis always misses and drops every write; the missing
\* client never makes a lookup fail: the only errors are the upstream's on a
\* total miss.
C28_AbsentEqualsAlwaysMiss ==
    /\ InStep =>
          /\ db = probe.db
          /\ \A p \in Procs :
                /\ lk[p].pc = probe.lk[p].pc
                /\ lk[p].result = probe.lk[p].result
                /\ lk[p].err = probe.lk[p].err
                /\ lk[p].http = probe.lk[p].http
    /\ \A p \in Procs :
          LET l == Absent.lk[p]
          IN /\ l.fastR \in {"none", "nil"}
             /\ l.fastW \in {"none", "skip"}
             /\ (l.pc = "done" /\ l.err # "") =>
                   /\ l.up = "fail"
                   /\ l.cached = Nil
                   /\ l.err \in UpstreamErrors
    /\ \A k \in RedisKeys : Absent.redis[k] = Nil

\* Both deployments have answered a second request with the stale row of the
\* first, one without a client and one after a Redis read that missed.
C28_Witness ==
    /\ InStep
    /\ rdb
    /\ \E p \in Procs :
          /\ lk[p].pc = "done"
          /\ lk[p].fastR = "miss"
          /\ probe.lk[p].fastR = "nil"
          /\ lk[p].durR = "row"
          /\ lk[p].up = "fail"
          /\ lk[p].result # Nil
          /\ probe.lk[p].result = lk[p].result
    /\ \E q \in Procs : lk[q].fastW = "fail" /\ probe.lk[q].fastW = "skip"


\* ------------------------------------------ overlapping lookups and the clock

\* The upstream answers that carry exactly one period, reported in Fahrenheit.
FahrenheitAnswers ==
    { a \in UpstreamSuccesses :
        Len(a.periods) = 1 /\ a.periods[1].temperatureUnit = "F" }

\* Requests for one coordinate that may overlap, with a connected Redis, caches
\* that answer every read and accept every write, an upstream that answers, and
\* the clock ticking between any two steps.  A request arrives while at most
\* one earlier request is being served or has its reply pending.
InitTimed == Init /\ rdb

NextTimed ==
    \/ \E p \in Procs : Cardinality(Started(lk)) <= 1 /\ Request(p, Home)
    \/ \E p \in Procs : FastRead(p, FALSE)
    \/ \E p \in Procs : DurableRead(p, FALSE)
    \/ \E p \in Procs, a \in FahrenheitAnswers :
          Upstream(p, a.pts, a.fc, a.periods)
    \/ \E p \in Procs : SaveFast(p, FALSE)
    \/ \E p \in Procs : SaveDb(p, FALSE)
    \/ \E p \in Procs : Reply(p)
    \/ Tick

SpecTimed == InitTimed /\ [][NextTimed]_vars

\* The lookups whose fetched forecast has been written back to both caches.
WrittenBack ==
    { q \in Procs : /\ lk[q].pc = "done"
                    /\ lk[q].up = "ok"
                    /\ lk[q].fastW = "ok"
                    /\ lk[q].durW = "ok" }

\* The cache read of lookup p ends in this step and sends it to the upstream.
ReadSendsUpstream(p) ==
    /\ lk[p].pc \in {"fast", "durable"}
    /\ lk'[p].pc = "upstream"

\* C29 as stated: once a forecast captured at T has been written back to both
\* caches, no lookup that reads the caches before T + 1 hour calls the
\* upstream, T being the latest capture time among the forecasts written back.
C29_StepWithinHourOfLatest ==
    \A p \in Procs :
        ReadSendsUpstream(p) =>
            \A q \in WrittenBack : now >= lk[q].weather.timestamp + Hour

C29_NoUpstreamWithinHourOfLatest == [][C29_StepWithinHourOfLatest]_vars


\* The fast cache holds the forecast that lookup q wrote back.
FastHolds(q) ==
    LET e == redis[RedisKey(lk[q].lat, lk[q].lon)]
    IN e # Nil /\ JsonUnmarshal(e.data).cache = lk[q].weather

\* Within the hour that follows the capture of a forecast written back to
\* both caches the fast cache holds an entry for the key.
C29_EntryThroughTheHour ==
    \A q \in WrittenBack :
        now < lk[q].weather.timestamp + Hour =>
            redis[RedisKey(lk[q].lat, lk[q].lon)] # Nil

\* A cache read sends a lookup to the upstream only when an hour has passed
\* since the capture of the forecast the fast cache holds.
C29_StepWithinHourOfFastCopy ==
    \A p \in Procs :
        ReadSendsUpstream(p) =>
            \A q \in WrittenBack :
                FastHolds(q) => now >= lk[q].weather.timestamp + Hour

\* C29, amended: once a forecast captured at T has been written back to both
\* caches, no lookup that reads the caches before T + 1 hour calls the
\* upstream, provided no cache becomes unavailable; when several lookups
\* fetch and write back concurrently, T is the capture time of the forecast
\* whose fast-cache write came last.
C29_NoUpstreamWithinHourOfFastCopy ==
    []C29_EntryThroughTheHour /\ [][C29_StepWithinHourOfFastCopy]_vars

\* Two write-backs overlapped (the fast cache holds one forecast, the last
\* row another); a later lookup was served the fast copy, captured earlier,
\* without an upstream call.
C29_Witness ==
    \E p, q \in Procs :
        /\ q \in WrittenBack
        /\ FastHolds(q)
        /\ lk[p].pc = "done"
        /\ lk[p].fastR = "hit"
        /\ lk[p].up = "none"
        /\ lk[p].cached = lk[q].weather
        /\ lk[p].readAt > lk[q].weather.timestamp
        /\ Len(db) = 2
        /\ db[2].forecast # lk[q].weather.forecast


\* --------------------------------------- the fast copy and the latest row

\* The forecast data of a cache entry or of a row.
ForecastOf(e) == [forecast |-> e.forecast, tempC |-> e.tempC, tempF |-> e.tempF]

\* The fast-cache entry of the coordinate, decoded, or Nil.
FastEntry(c) ==
    LET e == redis[RedisKey(c.lat, c.lon)]
    IN IF e = Nil THEN Nil ELSE JsonUnmarshal(e.data).cache

\* The fast entry, when there is one, holds the forecast of the row inserted
\* last for the coordinate.
FastIsLastRow(c) ==
    FastEntry(c) # Nil =>
        /\ RowsFor(c.lat, c.lon) # {}
        /\ ForecastOf(FastEntry(c)) = ForecastOf(db[LastInsert(c.lat, c.lon)])

\* C30 as stated: whenever no lookup is in progress (every cache write so far
\* has succeeded), the fast-cache entry of a key holds the forecast of the
\* most recent durable row for that key.
C30_FastEqualsLatestRow == Active = {} => FastIsLastRow(Home)

\* The lookups between their fast-cache write and their insert.
InWriteBack == { p \in Procs : lk[p].pc = "saveDb" }

\* This step starts the write-back of a lookup while another lookup is between
\* its two writes: the two write-backs overlap.
OverlapStep ==
    \E p \in Procs : lk[p].pc = "saveFast" /\ lk'[p].pc = "saveDb" /\ InWriteBack # {}

\* What holds as long as write-backs have not overlapped: outside a
\* write-back the fast entry is the last row's forecast, inside one it is the
\* forecast being written back.
InOrder ==
    IF InWriteBack = {} THEN FastIsLastRow(Home)
    ELSE /\ Cardinality(InWriteBack) = 1
         /\ \A p \in InWriteBack :
               FastEntry(Home) # Nil => FastEntry(Home) = lk[p].weather

\* With no lookup in progress the fast entry holds the forecast of some row.
C30_FastIsSomeRow ==
    (Active = {} /\ FastEntry(Home) # Nil) =>
        \E i \in RowsFor(Home.lat, Home.lon) :
            ForecastOf(FastEntry(Home)) = ForecastOf(db[i])

\* C30, amended: whenever no lookup is in progress and all cache writes so
\* far succeeded, the fast-cache entry of a key holds the forecast of some
\* durable row for that key, and of the most recent one as long as no two
\* write-backs for the key have overlapped (every step that is not the start
\* of an overlapping write-back keeps the fast entry in order with the rows).
C30_FastFollowsRows ==
    []C30_FastIsSomeRow /\ [][(InOrder /\ ~OverlapStep) => InOrder']_vars

\* Two write-backs overlapped and both lookups are over: the fast cache holds
\* the forecast of the first row while the last row holds another one.
C30_Witness ==
    /\ Active = {}
    /\ Len(db) = 2
    /\ FastEntry(Home) # Nil
    /\ ForecastOf(FastEntry(Home)) = ForecastOf(db[1])
    /\ ForecastOf(FastEntry(Home)) # ForecastOf(db[2])


\* ------------------------------------------------------- bounded staleness

\* The lookups on record whose upstream call succeeded.
Fetched == { q \in Procs : lk[q].up = "ok" }

\* Every row was inserted by a lookup that is still on record, so the
\* captures on record are all the captures the caches can hold.
AllCapturesKnown ==
    Len(db) = Cardinality({ q \in Procs : lk[q].durW = "ok" })

\* C31 as stated: a response of a lookup that made no upstream call carries
\* data that an upstream fetch captured less than one hour before the lookup
\* read it.
C31_BoundedStaleness ==
    \A p \in Procs :
        (AllCapturesKnown /\ lk[p].pc = "done" /\ lk[p].up = "none"
            /\ lk[p].result # Nil) =>
            \E q \in Fetched :
                /\ Carries(lk[p].result, lk[q].weather)
                /\ lk[q].weather.timestamp <= lk[p].readAt
                /\ lk[p].readAt - lk[q].weather.timestamp < Hour


\* ------------------------------------------------- the single-file server

\* getCachedWeather, lines 204-220, and getWeatherHandler, lines 290-299: the
\* SQLite read of the single-file server.  A row that was found is handed to
\* cacheWeather when there is a Redis client, which sets the Redis key
\* (setFailed: the Set fails) and inserts the row's forecast as a new row
\* (insFailed: the INSERT fails; it also fails once the table holds MaxRows
\* rows); both errors are dropped.  The handler then applies the freshness
\* check to the row that was read.
GetCachedWeatherDurable(p, failed, setFailed, insFailed) ==
    /\ lk[p].pc = "durable"
    /\ LET l == lk[p]
       IN IF failed THEN
              /\ ~setFailed /\ ~insFailed
              /\ lk' = [lk EXCEPT ![p] = AfterDurableMiss(l, "err")]
              /\ UNCHANGED <<redis, db>>
          ELSE IF RowsFor(l.lat, l.lon) = {} THEN
              /\ ~setFailed /\ ~insFailed
              /\ lk' = [lk EXCEPT ![p] = AfterDurableMiss(l, "norow")]
              /\ UNCHANGED <<redis, db>>
          ELSE
              \E i \in LatestRows(l.lat, l.lon) :
                  LET cache == [latitude |-> l.lat, longitude |-> l.lon,
                                forecast |-> db[i].forecast,
                                tempC |-> db[i].tempC,
                                tempF |-> db[i].tempF,
                                timestamp |-> db[i].timestamp]
                  IN /\ ~rdb => (~setFailed /\ ~insFailed)
                     /\ redis' = IF rdb /\ ~setFailed
                                 THEN [redis EXCEPT ![RedisKey(l.lat, l.lon)] =
                                         NewEntry(cache, now)]
                                 ELSE redis
                     /\ db' = IF rdb /\ ~insFailed /\ Len(db) < MaxRows
                              THEN Append(db, NewRow(cache, now))
                              ELSE db
                     /\ lk' = [lk EXCEPT ![p] =
                                 AfterCacheRead([l EXCEPT !.cached = cache,
                                                          !.durR = "row",
                                                          !.readAt = now], now)]
    /\ UNCHANGED <<now, rdb, probe>>

\* Requests to the single-file server for one coordinate, served one at a
\* time.  Its Redis read, upstream call and write-back (cacheWeather) are
\* those of the layered server; its response leaves out temperature_f.
NextSingle ==
    \/ \E p \in Procs : RequestInTurn(p, Home)
    \/ \E p \in Procs, failed \in BOOLEAN : FastRead(p, failed)
    \/ \E p \in Procs, failed \in BOOLEAN, setFailed \in BOOLEAN,
          insFailed \in BOOLEAN :
          GetCachedWeatherDurable(p, failed, setFailed, insFailed)
    \/ \E p \in Procs, a \in TwoAnswers : Upstream(p, a.pts, a.fc, a.periods)
    \/ \E p \in Procs : SaveFast(p, FALSE)
    \/ \E p \in Procs : SaveDb(p, FALSE)
    \/ \E p \in Procs : Reply(p)
    \/ Tick

SpecSingle == Init /\ [][NextSingle]_vars

\* The step of a durable read changes no row.
C32_ReadKeepsRows ==
    \A p \in Procs :
        (lk[p].pc = "durable" /\ lk'[p] # lk[p]) => db' = db

\* C32 as stated: in the single-file server, reading a durable row to serve a
\* request leaves the durable store unchanged, with or without a fast cache
\* connected.
C32_DurableReadLeavesStore == [][C32_ReadKeepsRows]_vars

====
